---- MODULE Spec2Model ----
(***************************************************************************)
(* Certificates-Verification: the public certificate routes               *)
(* (GET /api/certificates/verify/:certificateId, /check/:certificateId and *)
(* /search), the admin certificate routes (create, update, delete,         *)
(* revoke) and the auth routes (login, change-password) over the           *)
(* Certificate, Admin and AuditLog collections, and the browser-side ID    *)
(* codec and validator (parseCertificateId, validateCertificateId).        *)
(*                                                                         *)
(* Strings are sequences of one-character strings, so that trim,           *)
(* toUpperCase, substring, parseInt and the regular expressions are        *)
(* computed character by character as JavaScript computes them.            *)
(***************************************************************************)
EXTENDS Integers, Sequences, FiniteSets, TLC

VARIABLES
  store,     \* Certificate collection: certificateId -> document or NoDoc
  audit,     \* AuditLog collection: sequence of entries, oldest first
  now,       \* wall clock read by new Date()
  started,   \* number of requests accepted so far
  pc,        \* per request slot: position of the handler between awaits
  req,       \* per request slot: the request being served
  doc,       \* per request slot: the in-memory mongoose document
  resp,      \* per request slot: the response sent, or NoResp
  delta,     \* per request slot: the change set save() will send
  store0,    \* history: the Certificate collection at start-up
  before,    \* history, per request slot: collections when the request arrived
  input,     \* browser: the raw string handed to the codec / validator
  result,    \* browser: value returned by validateCertificateId
  parsed,    \* browser: value returned by parseCertificateId
  virtuals,  \* server: year / serialNumber virtuals of a document with id = input
  admins,    \* Admin collection: username -> document or NoDoc
  attempts   \* history: the login attempts answered so far, oldest first

serverVars == <<store, audit, now, started, pc, req, doc, resp, delta, store0, before>>
clientVars == <<input, result, parsed, virtuals>>
authVars == <<admins, attempts>>
vars == <<store, audit, now, started, pc, req, doc, resp, delta, store0, before,
          input, result, parsed, virtuals, admins, attempts>>

----------------------------------------------------------------------------
(* Bounds of the model                                                     *)

MaxRequests == 2      \* requests accepted in one behaviour
MaxLen == 8           \* longest raw string handed to the validator

----------------------------------------------------------------------------
(* JavaScript string primitives                                            *)

Digits == {"0", "1", "2", "3", "4", "5", "6", "7", "8", "9"}

DigitVal(c) ==
  CASE c = "0" -> 0 [] c = "1" -> 1 [] c = "2" -> 2 [] c = "3" -> 3
    [] c = "4" -> 4 [] c = "5" -> 5 [] c = "6" -> 6 [] c = "7" -> 7
    [] c = "8" -> 8 [] c = "9" -> 9

\* String.prototype.trim: white space (here " ", "\t", "\n") is removed at both ends
WhiteSpace == {" ", "\t", "\n"}

RECURSIVE TrimStart(_)
TrimStart(s) ==
  IF s = <<>> THEN <<>>
  ELSE IF Head(s) \in WhiteSpace THEN TrimStart(Tail(s)) ELSE s

RECURSIVE TrimEnd(_)
TrimEnd(s) ==
  IF s = <<>> THEN <<>>
  ELSE IF s[Len(s)] \in WhiteSpace THEN TrimEnd(SubSeq(s, 1, Len(s) - 1)) ELSE s

Trim(s) == TrimEnd(TrimStart(s))

\* String.prototype.toUpperCase, on the characters the model uses
UpperChar(c) ==
  CASE c = "a" -> "A" [] c = "b" -> "B" [] c = "x" -> "X" [] OTHER -> c

ToUpperCase(s) == [i \in 1..Len(s) |-> UpperChar(s[i])]

Min(a, b) == IF a < b THEN a ELSE b
Max(a, b) == IF a > b THEN a ELSE b

\* String.prototype.substr(start, length) used where substring was meant
Substring_AsSubstr(s, start, end) ==
  LET a == Min(Max(start, 0), Len(s))
  IN SubSeq(s, a + 1, Min(a + Max(end, 0), Len(s)))

\* String.prototype.substring(start, end): both indices are clamped to
\* 0..length and swapped when start > end; the result is s[lo], ..., s[hi-1]
\* (0-based), i.e. positions lo+1..hi of the sequence.
Substring(s, start, end) ==
  LET a == Min(Max(start, 0), Len(s))
      b == Min(Max(end, 0), Len(s))
      lo == Min(a, b)
      hi == Max(a, b)
  IN SubSeq(s, lo + 1, hi)

\* the same test with the trailing $ anchor left out: /^\d{7}/
MatchesSevenDigits_Unanchored(s) ==
  Len(s) >= 7 /\ \A i \in 1..7 : s[i] \in Digits

\* /^\d{7}$/.test(s)
MatchesSevenDigits(s) == Len(s) = 7 /\ \A i \in 1..Len(s) : s[i] \in Digits

\* parseInt(s) in radix 10: leading white space is skipped, then the longest
\* prefix of decimal digits is read; NaN when that prefix is empty.
NaN == -1

RECURSIVE DigitPrefixValue(_, _)
DigitPrefixValue(s, acc) ==
  IF s = <<>> \/ Head(s) \notin Digits THEN acc
  ELSE DigitPrefixValue(Tail(s), 10 * acc + DigitVal(Head(s)))

\* parseInt as engines before ES5 read it: a leading "0" selects radix 8,
\* so the digit prefix ends at the first "8" or "9"
RECURSIVE OctalPrefixValue(_, _)
OctalPrefixValue(s, acc) ==
  IF s = <<>> \/ Head(s) \notin (Digits \ {"8", "9"}) THEN acc
  ELSE OctalPrefixValue(Tail(s), 8 * acc + DigitVal(Head(s)))

ParseInt_LegacyOctal(s) ==
  LET t == TrimStart(s)
  IN IF t = <<>> \/ Head(t) \notin Digits THEN NaN
     ELSE IF Head(t) = "0" THEN OctalPrefixValue(t, 0)
     ELSE DigitPrefixValue(t, 0)

ParseInt(s) ==
  LET t == TrimStart(s)
  IN IF t = <<>> \/ Head(t) \notin Digits THEN NaN ELSE DigitPrefixValue(t, 0)

\* every comparison with NaN is false
Lt(a, b) == a # NaN /\ b # NaN /\ a < b
Gt(a, b) == a # NaN /\ b # NaN /\ a > b

\* s.replace(/^0+/, '')
RECURSIVE StripLeadingZeros(_)
StripLeadingZeros(s) ==
  IF s # <<>> /\ Head(s) = "0" THEN StripLeadingZeros(Tail(s)) ELSE s

\* String.prototype.toLowerCase, on the characters the model uses
LowerChar(c) ==
  CASE c = "A" -> "a" [] c = "B" -> "b" [] c = "E" -> "e" [] c = "R" -> "r"
    [] c = "X" -> "x" [] OTHER -> c

ToLowerCase(s) == [i \in 1..Len(s) |-> LowerChar(s[i])]

LowerLetters ==
  {"a", "b", "c", "d", "e", "f", "g", "h", "i", "j", "k", "l", "m",
   "n", "o", "p", "q", "r", "s", "t", "u", "v", "w", "x", "y", "z"}

UpperLetters ==
  {"A", "B", "C", "D", "E", "F", "G", "H", "I", "J", "K", "L", "M",
   "N", "O", "P", "Q", "R", "S", "T", "U", "V", "W", "X", "Y", "Z"}

Letters == LowerLetters \cup UpperLetters

\* the text is found in s as a contiguous run of characters
Contains(s, text) ==
  \E k \in 0..(Len(s) - Len(text)) : SubSeq(s, k + 1, k + Len(text)) = text

\* number of occurrences of the character c in s
RECURSIVE CountChar(_, _)
CountChar(s, c) ==
  IF s = <<>> THEN 0
  ELSE (IF Head(s) = c THEN 1 ELSE 0) + CountChar(Tail(s), c)

\* position of the last occurrence of c in s, 0 when there is none
LastIndexOf(s, c) ==
  IF \E i \in 1..Len(s) : s[i] = c
  THEN CHOOSE i \in 1..Len(s) : s[i] = c /\ \A j \in (i + 1)..Len(s) : s[j] # c
  ELSE 0

----------------------------------------------------------------------------
(* Browser-side codec and validator (certificates/script.js)               *)

Null == [null |-> TRUE]

ErrFormat == "Certificate ID must be 7 digits (Format: YYSSCCC)"
ErrYear == "Invalid year in certificate ID"
ErrSubProgram == "Invalid sub-program code"
ErrSerial == "Invalid serial number"

parseCertificateId(id) ==
  IF ~MatchesSevenDigits(id) THEN Null
  ELSE LET year == <<"2", "0">> \o Substring(id, 0, 2)
           subProgram == Substring(id, 2, 4)
           serial == Substring(id, 4, 7)
       IN [id |-> id, year |-> year, subProgram |-> subProgram, serial |-> serial,
           serialDisplay |-> IF StripLeadingZeros(serial) = <<>> THEN <<"0">>
                             ELSE StripLeadingZeros(serial)]

validateCertificateId(raw) ==
  LET id == ToUpperCase(Trim(raw))
  IN IF ~MatchesSevenDigits(id)
     THEN [valid |-> FALSE, error |-> ErrFormat]
     ELSE LET p == parseCertificateId(id)
              yearNum == ParseInt(Substring(p.year, 2, Len(p.year)))
              subProgNum == ParseInt(p.subProgram)
              serialNum == ParseInt(p.serial)
          IN IF Lt(yearNum, 20) \/ Gt(yearNum, 99)
             THEN [valid |-> FALSE, error |-> ErrYear]
             ELSE IF Lt(subProgNum, 0) \/ Gt(subProgNum, 99)
             THEN [valid |-> FALSE, error |-> ErrSubProgram]
             ELSE IF Lt(serialNum, 1) \/ Gt(serialNum, 9999)
             THEN [valid |-> FALSE, error |-> ErrSerial]
             ELSE [valid |-> TRUE, parsed |-> p]

\* Certificate model virtuals (models/Certificate.js)
yearVirtual(certificateId) == <<"2", "0">> \o Substring(certificateId, 0, 2)
serialNumberVirtual(certificateId) == Substring(certificateId, 4, 7)

----------------------------------------------------------------------------
(* Server: documents, requests, responses                                  *)

ID_A == <<"2", "5", "0", "1", "0", "0", "1">>        \* 2501001
ID_B == <<"2", "5", "0", "2", "0", "0", "1">>        \* 2502001
ID_ABSENT == <<"9", "9", "9", "9", "9", "9", "9">>   \* 9999999
ID_SHORT == <<"1", "2", "3", "4", "5", "6">>         \* 123456

StoreIds == {ID_A, ID_B}
PathIds == {ID_A, ID_B, ID_ABSENT, ID_SHORT}
QueryIds == {ID_A, ID_SHORT}
ClientIPs == {"10.0.0.1", "10.0.0.2"}
Slots == {1, 2}

\* trackIP keeps at most this many entries
MaxTrackedIPs == 10

\* texts stored with the seeded certificates
TextAda == <<"A", "d", "a">>
TextBob == <<"B", "o", "b">>
EmailAda == <<"a", "@", "x", ".", "i", "o">>
EmailBob == <<"b", "@", "x", ".", "i", "o">>
TextPolicy == <<"p", "o", "l", "i", "c", "y">>

\* a stored Certificate document: the schema defaults (models/Certificate.js)
\* and the required paths of the record with this id; a String path that is
\* not set (notes, revocationReason, updatedBy) is the empty text
NewCertificate(id) ==
  [certificateId |-> id,
   isVerified |-> TRUE,
   verificationCount |-> 0,
   lastVerifiedAt |-> 0,
   revokedAt |-> 0,
   revocationReason |-> <<>>,
   isRevoked |-> FALSE,
   ipAddresses |-> <<>>,
   version |-> 0,
   recipientName |-> IF id = ID_A THEN TextAda ELSE TextBob,
   recipientEmail |-> IF id = ID_A THEN EmailAda ELSE EmailBob,
   program |-> "Web Development",
   programCategory |-> "01",
   awardDate |-> 1,
   notes |-> <<>>,
   verificationHash |-> [hashOf |-> id],
   createdBy |-> "seed",
   updatedBy |-> "",
   updatedAt |-> 0]

\* ten earlier verifications from ten distinct addresses, oldest first
EarlierIPs ==
  <<"10.0.0.1", "10.0.1.2", "10.0.1.3", "10.0.1.4", "10.0.1.5",
    "10.0.1.6", "10.0.1.7", "10.0.1.8", "10.0.1.9", "10.0.1.10">>

FullIPList ==
  [i \in 1..MaxTrackedIPs |-> [ip |-> EarlierIPs[i], verifiedAt |-> 0]]

RevokedCertificate(id) ==
  [NewCertificate(id) EXCEPT !.isRevoked = TRUE, !.revokedAt = 1,
                             !.revocationReason = TextPolicy,
                             !.verificationCount = 2, !.lastVerifiedAt = 1,
                             !.ipAddresses = <<[ip |-> "10.0.0.1", verifiedAt |-> 1]>>,
                             !.version = 1]

InitialDocs(id) ==
  {Null,
   NewCertificate(id),
   [NewCertificate(id) EXCEPT !.isVerified = FALSE],
   RevokedCertificate(id),
   [NewCertificate(id) EXCEPT !.verificationCount = MaxTrackedIPs,
                              !.ipAddresses = FullIPList,
                              !.version = MaxTrackedIPs]}

\* the query string either carries certificateId=<value> or does not
QueryStrings ==
  {[hasQuery |-> FALSE, queryId |-> <<>>]} \cup
  {[hasQuery |-> TRUE, queryId |-> q] : q \in QueryIds}

Requests ==
  {[op |-> o, pathId |-> i, hasQuery |-> q.hasQuery, queryId |-> q.queryId, ip |-> a] :
     o \in {"verify", "check"}, i \in PathIds, q \in QueryStrings, a \in ClientIPs}

\* concurrent traffic: both routes, one stored id and one missing id
ConcurrentRequests ==
  {r \in Requests : r.pathId \in {ID_A, ID_ABSENT} /\ r.hasQuery /\ r.queryId = ID_A}

NoRequest == Null
NoDelta == Null

----------------------------------------------------------------------------
(* express-validator chain and handleValidationErrors                      *)

\* query('certificateId') selects req.query.certificateId; a missing value
\* is validated as the empty string
SelectQueryField(r) == IF r.hasQuery THEN r.queryId ELSE <<>>

\* .trim().toUpperCase().matches(/^\d{7}$/)
CertificateIdChainPasses(r) ==
  MatchesSevenDigits(ToUpperCase(Trim(SelectQueryField(r))))

ValidationFailedResponse == [status |-> 400, error |-> "Validation Failed"]

----------------------------------------------------------------------------
(* Certificate model: statics and methods                                  *)

\* Certificate.findOne({certificateId: certId.toUpperCase()})
findByCertificateId(certId) ==
  IF ToUpperCase(certId) \in StoreIds THEN store[ToUpperCase(certId)] ELSE Null

\* Certificate.exists({certificateId, isRevoked: false})
existsActive(certId) ==
  /\ certId \in StoreIds
  /\ store[certId] # Null
  /\ ~store[certId].isRevoked

\* certificateSchema.methods.verify: "ok" or the thrown error
verifyThrows(d) == d.isRevoked \/ ~d.isVerified

verify(d, t) ==
  [d EXCEPT !.verificationCount = @ + 1, !.lastVerifiedAt = t]

\* index of the first entry with this ip, 0 when there is none
FindIP(list, ip) ==
  IF \E i \in 1..Len(list) : list[i].ip = ip
  THEN CHOOSE i \in 1..Len(list) :
         list[i].ip = ip /\ \A j \in 1..(i - 1) : list[j].ip # ip
  ELSE 0

\* certificateSchema.methods.trackIP
trackIP(d, ip, t) ==
  LET list == d.ipAddresses
      i == FindIP(list, ip)
  IN IF i = 0
     THEN LET kept == IF Len(list) >= MaxTrackedIPs THEN Tail(list) ELSE list
          IN [d EXCEPT !.ipAddresses =
                Append(kept, [ip |-> ip, verifiedAt |-> t])]
     ELSE [d EXCEPT !.ipAddresses[i].verifiedAt = t]

\* the array operation mongoose records for the ipAddresses path:
\* push alone is sent as $push, shift followed by push as $set of the whole
\* array, and a change inside an element as a positional $set
trackIPDelta(d, ip) ==
  LET i == FindIP(d.ipAddresses, ip)
  IN IF i = 0
     THEN IF Len(d.ipAddresses) >= MaxTrackedIPs
          THEN [arrayOp |-> "set", index |-> 0]
          ELSE [arrayOp |-> "push", index |-> 0]
     ELSE [arrayOp |-> "positional", index |-> i]

----------------------------------------------------------------------------
(* Browser specification: the codec and the validator applied to one raw   *)
(* string, and the server virtuals read for a document with that id        *)

RangeDigits == {"0", "1", "2", "9"}
FormatChars == {"2", " ", "a"}

SevenDigitInputs == [1..7 -> RangeDigits]
RawInputs == UNION {[1..n -> FormatChars] : n \in 0..MaxLen}
\* the boundary strings, the malformed strings and the README's test ids
ClientInputs == SevenDigitInputs \cup RawInputs \cup PathIds

Pending == [pending |-> TRUE]

ClientValidate ==
  /\ result = Pending
  /\ result' = validateCertificateId(input)
  /\ UNCHANGED <<input, parsed, virtuals>>
  /\ UNCHANGED serverVars
  /\ UNCHANGED authVars

ClientParse ==
  /\ parsed = Pending
  /\ parsed' = parseCertificateId(input)
  /\ UNCHANGED <<input, result, virtuals>>
  /\ UNCHANGED serverVars
  /\ UNCHANGED authVars

\* a stored document's certificateId matches /^\d{7}$/ (schema match validator)
ReadVirtuals ==
  /\ virtuals = Pending
  /\ MatchesSevenDigits(input)
  /\ virtuals' = [year |-> yearVirtual(input),
                  serialNumber |-> serialNumberVirtual(input)]
  /\ UNCHANGED <<input, result, parsed>>
  /\ UNCHANGED serverVars
  /\ UNCHANGED authVars

----------------------------------------------------------------------------
(* Documents written by the public routes                                  *)

VerifyAuditEntry(r, status, errorMessage) ==
  [action |-> "VERIFY", entityType |-> "CERTIFICATE", entityId |-> r.pathId,
   ipAddress |-> r.ip, status |-> status, errorMessage |-> errorMessage]

NotFoundResponse ==
  [status |-> 404, error |-> "Not Found", verified |-> FALSE]

RevokedResponse(d) ==
  [status |-> 410, error |-> "Revoked", verified |-> FALSE,
   revokedAt |-> d.revokedAt, revocationReason |-> d.revocationReason]

VerifiedResponse(d) ==
  [status |-> 200, verified |-> TRUE,
   certificateId |-> d.certificateId,
   year |-> yearVirtual(d.certificateId),
   serialNumber |-> serialNumberVirtual(d.certificateId),
   verificationCount |-> d.verificationCount]

VerificationErrorResponse ==
  [status |-> 500, error |-> "Verification Error", verified |-> FALSE]

CheckResponse(r, exists) ==
  [status |-> 200, exists |-> exists, certificateId |-> r.pathId]

\* document.save(): the update mongoose sends for the modified paths, with
\* the updatedAt stamp of the timestamps option (taken when save is called).
\* An update carrying a version condition matches only the stored version
\* the document was loaded with.
SaveMatches(d, dl) ==
  /\ store[d.certificateId] # Null
  /\ dl.arrayOp \in {"set", "positional"} =>
       store[d.certificateId].version = d.version

SavedDocument(d, dl) ==
  LET cur == store[d.certificateId]
      n == Len(d.ipAddresses)
  IN [cur EXCEPT
        !.verificationCount = d.verificationCount,
        !.lastVerifiedAt = d.lastVerifiedAt,
        !.updatedAt = d.lastVerifiedAt,
        !.ipAddresses =
           CASE dl.arrayOp = "push" -> Append(@, d.ipAddresses[n])
             [] dl.arrayOp = "set" -> d.ipAddresses
             [] dl.arrayOp = "positional" ->
                  [@ EXCEPT ![dl.index].verifiedAt =
                              d.ipAddresses[dl.index].verifiedAt],
        !.version = IF dl.arrayOp \in {"push", "set"} THEN @ + 1 ELSE @]

----------------------------------------------------------------------------
(* Request handling: one action per stretch of a handler between awaits    *)

Idle(p) == pc[p] \in {"idle", "done"}
NoneInFlight == \A q \in Slots : Idle(q)

\* A request arrives; the validation chain and handleValidationErrors run.
Receive(p, r) ==
  /\ Idle(p)
  /\ started < MaxRequests
  /\ started' = started + 1
  /\ \E d \in {0, 1} : now' = now + d
  /\ req' = [req EXCEPT ![p] = r]
  /\ doc' = [doc EXCEPT ![p] = Null]
  /\ delta' = [delta EXCEPT ![p] = NoDelta]
  /\ IF ~CertificateIdChainPasses(r)
     THEN /\ resp' = [resp EXCEPT ![p] = ValidationFailedResponse]
          /\ pc' = [pc EXCEPT ![p] = "done"]
     ELSE /\ resp' = [resp EXCEPT ![p] = Null]
          /\ pc' = [pc EXCEPT ![p] = IF r.op = "verify" THEN "find" ELSE "exists"]
  /\ before' = [before EXCEPT ![p] = [store |-> store, audit |-> audit]]
  /\ UNCHANGED <<store, audit, store0>>
  /\ UNCHANGED clientVars
  /\ UNCHANGED authVars

\* verify: findByCertificateId resolves; the handler runs up to its next await
VerifyFind(p) ==
  /\ pc[p] = "find"
  /\ LET certificate == findByCertificateId(req[p].pathId)
     IN IF certificate = Null
        THEN /\ pc' = [pc EXCEPT ![p] = "auditNotFound"]
             /\ UNCHANGED <<doc, delta, resp>>
        ELSE IF certificate.isRevoked
        THEN /\ pc' = [pc EXCEPT ![p] = "auditRevoked"]
             /\ doc' = [doc EXCEPT ![p] = certificate]
             /\ UNCHANGED <<delta, resp>>
        ELSE IF verifyThrows(certificate)
        THEN /\ pc' = [pc EXCEPT ![p] = "done"]
             /\ doc' = [doc EXCEPT ![p] = certificate]
             /\ resp' = [resp EXCEPT ![p] = VerificationErrorResponse]
             /\ UNCHANGED delta
        ELSE /\ pc' = [pc EXCEPT ![p] = "save"]
             /\ doc' = [doc EXCEPT ![p] =
                          trackIP(verify(certificate, now), req[p].ip, now)]
             /\ delta' = [delta EXCEPT ![p] = trackIPDelta(certificate, req[p].ip)]
             /\ UNCHANGED resp
  /\ UNCHANGED <<store, audit, now, started, req>>
  /\ UNCHANGED <<store0, before>>
  /\ UNCHANGED clientVars
  /\ UNCHANGED authVars

\* verify: AuditLog.create for a missing certificate
VerifyAuditNotFound(p) ==
  /\ pc[p] = "auditNotFound"
  /\ audit' = Append(audit, VerifyAuditEntry(req[p], "FAILED", "Certificate not found"))
  /\ pc' = [pc EXCEPT ![p] = "reply404"]
  /\ UNCHANGED <<store, now, started, req, doc, resp, delta>>
  /\ UNCHANGED <<store0, before>>
  /\ UNCHANGED clientVars
  /\ UNCHANGED authVars

\* verify: AuditLog.create for a revoked certificate
VerifyAuditRevoked(p) ==
  /\ pc[p] = "auditRevoked"
  /\ audit' = Append(audit, VerifyAuditEntry(req[p], "FAILED", "Certificate revoked"))
  /\ pc' = [pc EXCEPT ![p] = "reply410"]
  /\ UNCHANGED <<store, now, started, req, doc, resp, delta>>
  /\ UNCHANGED <<store0, before>>
  /\ UNCHANGED clientVars
  /\ UNCHANGED authVars

\* verify: certificate.save() reaches the database
VerifySave(p) ==
  /\ pc[p] = "save"
  /\ IF SaveMatches(doc[p], delta[p])
     THEN /\ store' = [store EXCEPT ![doc[p].certificateId] =
                         SavedDocument(doc[p], delta[p])]
          /\ pc' = [pc EXCEPT ![p] = "auditSuccess"]
          /\ UNCHANGED resp
     ELSE /\ pc' = [pc EXCEPT ![p] = "done"]
          /\ resp' = [resp EXCEPT ![p] = VerificationErrorResponse]
          /\ UNCHANGED store
  /\ UNCHANGED <<audit, now, started, req, doc, delta>>
  /\ UNCHANGED <<store0, before>>
  /\ UNCHANGED clientVars
  /\ UNCHANGED authVars

\* verify: AuditLog.create for a successful verification
VerifyAuditSuccess(p) ==
  /\ pc[p] = "auditSuccess"
  /\ audit' = Append(audit, VerifyAuditEntry(req[p], "SUCCESS", ""))
  /\ pc' = [pc EXCEPT ![p] = "reply200"]
  /\ UNCHANGED <<store, now, started, req, doc, resp, delta>>
  /\ UNCHANGED <<store0, before>>
  /\ UNCHANGED clientVars
  /\ UNCHANGED authVars

\* verify: AuditLog.create rejects inside the try; the catch block replies
VerifyAuditFails(p) ==
  /\ pc[p] \in {"auditNotFound", "auditRevoked", "auditSuccess"}
  /\ resp' = [resp EXCEPT ![p] = VerificationErrorResponse]
  /\ pc' = [pc EXCEPT ![p] = "done"]
  /\ UNCHANGED <<store, audit, now, started, req, doc, delta>>
  /\ UNCHANGED <<store0, before>>
  /\ UNCHANGED clientVars
  /\ UNCHANGED authVars

\* verify: res.json / res.status(...).json after the audit write resolved
VerifyReply(p) ==
  /\ pc[p] \in {"reply404", "reply410", "reply200"}
  /\ resp' = [resp EXCEPT ![p] =
                CASE pc[p] = "reply404" -> NotFoundResponse
                  [] pc[p] = "reply410" -> RevokedResponse(doc[p])
                  [] pc[p] = "reply200" -> VerifiedResponse(doc[p])]
  /\ pc' = [pc EXCEPT ![p] = "done"]
  /\ UNCHANGED <<store, audit, now, started, req, doc, delta>>
  /\ UNCHANGED <<store0, before>>
  /\ UNCHANGED clientVars
  /\ UNCHANGED authVars

\* check written on the verify pattern: the looked-up certificate is counted
CheckExists_Counting(p) ==
  /\ pc[p] = "exists"
  /\ resp' = [resp EXCEPT ![p] = CheckResponse(req[p], existsActive(req[p].pathId))]
  /\ pc' = [pc EXCEPT ![p] = "done"]
  /\ store' = IF existsActive(req[p].pathId)
              THEN [store EXCEPT ![req[p].pathId].verificationCount = @ + 1]
              ELSE store
  /\ UNCHANGED <<audit, now, started, req, doc, delta>>
  /\ UNCHANGED <<store0, before>>
  /\ UNCHANGED clientVars
  /\ UNCHANGED authVars

\* check: Certificate.exists resolves and the handler replies
CheckExists(p) ==
  /\ pc[p] = "exists"
  /\ resp' = [resp EXCEPT ![p] = CheckResponse(req[p], existsActive(req[p].pathId))]
  /\ pc' = [pc EXCEPT ![p] = "done"]
  /\ UNCHANGED <<store, audit, now, started, req, doc, delta>>
  /\ UNCHANGED <<store0, before>>
  /\ UNCHANGED clientVars
  /\ UNCHANGED authVars

----------------------------------------------------------------------------
(* Access control: bearer tokens, req.user and permission flags            *)

PermissionFlags ==
  {"canCreateCertificates", "canEditCertificates",
   "canDeleteCertificates", "canRevokeCertificates"}

\* adminSchema.permissions defaults, for the flags the certificate routes name
DefaultPermissions ==
  [canCreateCertificates |-> TRUE, canEditCertificates |-> TRUE,
   canDeleteCertificates |-> FALSE, canRevokeCertificates |-> TRUE]

AllPermissions == [f \in PermissionFlags |-> TRUE]
NoPermissions == [f \in PermissionFlags |-> FALSE]

\* the claims generateToken signs and jwt.verify hands back
TokenClaims(username, role, permissions) ==
  [username |-> username, role |-> role, permissions |-> permissions]

ClaimsAnn == TokenClaims("ann", "admin", DefaultPermissions)
ClaimsVic == TokenClaims("vic", "viewer", AllPermissions)
ClaimsSam == TokenClaims("sam", "super_admin", NoPermissions)

\* the Authorization header of a request
NoBearer == [kind |-> "missing"]
ExpiredBearer == [kind |-> "expired"]
ForgedBearer == [kind |-> "invalid"]
Bearer(claims) == [kind |-> "valid", user |-> claims]

NoTokenResponse ==
  [status |-> 401, error |-> "Unauthorized", message |-> "No access token provided"]
TokenExpiredResponse ==
  [status |-> 401, error |-> "TokenExpired", message |-> "Access token has expired"]
InvalidTokenResponse ==
  [status |-> 403, error |-> "Forbidden", message |-> "Invalid access token"]
NotAuthenticatedResponse ==
  [status |-> 401, error |-> "Unauthorized", message |-> "User not authenticated"]
ForbiddenResponse ==
  [status |-> 403, error |-> "Forbidden",
   message |-> "You do not have permission to perform this action"]

\* the router a route belongs to, and the routers app.use mounts behind
\* authenticateToken: only /api/admin is
RouterOf(op) ==
  CASE op \in {"create", "update", "delete", "revoke", "list"} -> "admin"
    [] op \in {"login", "changePassword", "logout"} -> "auth"
    [] OTHER -> "certificates"

AuthenticatesToken(router) == router = "admin"

\* authenticateToken: the response it sends, Null when it calls next()
authenticateToken(bearer) ==
  CASE bearer.kind = "missing" -> NoTokenResponse
    [] bearer.kind = "expired" -> TokenExpiredResponse
    [] bearer.kind = "invalid" -> InvalidTokenResponse
    [] OTHER -> Null

\* req.user as a handler of this request sees it: set by authenticateToken
\* where it is mounted, undefined (Null) everywhere else
ReqUser(r) ==
  IF AuthenticatesToken(RouterOf(r.op)) /\ r.bearer.kind = "valid"
  THEN r.bearer.user
  ELSE Null

\* delete gated by the edit flag
RequiredPermission_DeleteNeedsEdit(op) ==
  CASE op = "create" -> "canCreateCertificates"
    [] op = "update" -> "canEditCertificates"
    [] op = "delete" -> "canEditCertificates"
    [] op = "revoke" -> "canRevokeCertificates"

\* the flag each admin certificate route passes to authorizePermission
RequiredPermission(op) ==
  CASE op = "create" -> "canCreateCertificates"
    [] op = "update" -> "canEditCertificates"
    [] op = "delete" -> "canDeleteCertificates"
    [] op = "revoke" -> "canRevokeCertificates"

\* authorizePermission(permission): the response it sends, Null when it
\* calls next()
authorizePermission(user, permission) ==
  IF user = Null THEN NotAuthenticatedResponse
  ELSE IF ~user.permissions[permission] THEN ForbiddenResponse
  ELSE Null

\* the middleware in front of an admin route, in mounting order
AdminGate(r) ==
  IF authenticateToken(r.bearer) # Null THEN authenticateToken(r.bearer)
  ELSE authorizePermission(ReqUser(r), RequiredPermission(r.op))

----------------------------------------------------------------------------
(* Admin routes: request bodies and their validation chains                *)

\* sanitizeInput: trim, remove < and >, keep the first 1000 characters
sanitizeInput(s) ==
  LET t == SelectSeq(Trim(s), LAMBDA c : c \notin {"<", ">"})
  IN SubSeq(t, 1, Min(Len(t), 1000))

Programs ==
  {"Web Development", "Mobile Development", "Machine Learning",
   "Algorithms & Data Structures", "Programming Fundamentals",
   "Full Stack Development", "Cloud Computing", "Cybersecurity", "Other"}

ProgramCategories == {"00", "01", "02", "03"}

\* .trim().isLength({min: 2, max: 100}).matches(/^[a-zA-Z\s'-]+$/)
NameChainPasses(name) ==
  LET t == Trim(name)
  IN /\ Len(t) >= 2 /\ Len(t) <= 100
     /\ \A i \in 1..Len(t) : t[i] \in Letters \cup WhiteSpace \cup {"'", "-"}

WordChars == Letters \cup Digits \cup {"_"}

\* validator.js isEmail on the addresses the model uses: one "@", a
\* non-empty local part, and a dotted domain whose last label has at least
\* two characters
IsEmail(e) ==
  LET at == LastIndexOf(e, "@")
      dot == LastIndexOf(e, ".")
  IN /\ CountChar(e, "@") = 1
     /\ at > 1
     /\ dot > at + 1
     /\ Len(e) - dot >= 2
     /\ \A i \in 1..Len(e) : e[i] \in WordChars \cup {".", "-", "@"}

\* the schema's match on recipientEmail,
\* /^\w+([.-]?\w+)*@\w+([.-]?\w+)*(\.\w{2,3})+$/: as isEmail above, and the
\* last label has two or three characters
SchemaEmailMatches(e) ==
  /\ IsEmail(e)
  /\ Len(e) - LastIndexOf(e, ".") <= 3

\* .trim().isEmail().normalizeEmail(): the sanitised value
NormalizeEmail(e) == ToLowerCase(Trim(e))

TextEve == <<"E", "v", "e">>
TextEvePadded == <<" ", "E", "v", "e", " ">>
TextE == <<"E">>
EmailEve == <<"E", "@", "x", ".", "i", "o">>
EmailEveInfo == <<"e", "@", "x", ".", "i", "n", "f", "o">>
TextMarkup == <<"<", "b", ">">>
TextFraudPadded == <<" ", "f", "r", "a", "u", "d", " ">>
TextNoReason ==
  <<"N", "o", " ", "r", "e", "a", "s", "o", "n", " ",
    "p", "r", "o", "v", "i", "d", "e", "d">>

\* an awardDate string: whether it is ISO 8601, and the instant it denotes
DateString(iso, time) == [iso |-> iso, time |-> time]

\* body of POST /api/admin/certificates
CreateBody(id, name) ==
  [certificateId |-> id, recipientName |-> name, recipientEmail |-> EmailEve,
   program |-> "Cybersecurity", programCategory |-> "02",
   awardDate |-> DateString(TRUE, 3), notes |-> TextMarkup]

\* the synchronous validators of the create chain
CreateChainPasses(b) ==
  /\ MatchesSevenDigits(b.certificateId)
  /\ NameChainPasses(b.recipientName)
  /\ IsEmail(Trim(b.recipientEmail))
  /\ b.program \in Programs
  /\ b.programCategory \in ProgramCategories
  /\ b.awardDate.iso

\* req.body after the sanitisers of the create chain ran
CreateSanitized(b) ==
  [b EXCEPT !.recipientName = Trim(@), !.recipientEmail = NormalizeEmail(@)]

\* body of PUT /api/admin/certificates/:id: the fields it carries, their
\* values, and fields the handler does not read
UpdateBody(fields, name, email, date, notes, extra) ==
  [fields |-> fields, recipientName |-> name, recipientEmail |-> email,
   awardDate |-> date, notes |-> notes, extra |-> extra]

NoExtra == Null
ExtraFields ==
  [certificateId |-> ID_B, program |-> "Other", programCategory |-> "03",
   isRevoked |-> TRUE, verificationCount |-> 99]

Has(b, f) == f \in b.fields

UpdateBodies ==
  {UpdateBody({}, <<>>, <<>>, DateString(TRUE, 0), <<>>, NoExtra),
   UpdateBody({}, <<>>, <<>>, DateString(TRUE, 0), <<>>, ExtraFields),
   UpdateBody({"recipientName"}, TextEvePadded, <<>>, DateString(TRUE, 0), <<>>, NoExtra),
   UpdateBody({"recipientName"}, TextE, <<>>, DateString(TRUE, 0), <<>>, NoExtra),
   UpdateBody({"recipientEmail"}, <<>>, EmailEveInfo, DateString(TRUE, 0), <<>>, NoExtra),
   UpdateBody({"notes"}, <<>>, <<>>, DateString(TRUE, 0), <<>>, NoExtra),
   UpdateBody({"recipientName", "recipientEmail", "awardDate", "notes"},
              TextEve, EmailEve, DateString(TRUE, 7), TextMarkup, ExtraFields)}

\* the update chain: every field is optional() and validated when present
UpdateChainPasses(b) ==
  /\ Has(b, "recipientName") => NameChainPasses(b.recipientName)
  /\ Has(b, "recipientEmail") => IsEmail(Trim(b.recipientEmail))
  /\ Has(b, "awardDate") => b.awardDate.iso
  /\ Has(b, "notes") => Len(Trim(b.notes)) <= 500

UpdateSanitized(b) ==
  [b EXCEPT !.recipientName = Trim(@), !.recipientEmail = NormalizeEmail(@),
            !.notes = Trim(@)]

\* body of POST /api/admin/certificates/:id/revoke
RevokeBody(hasReason, reason) == [hasReason |-> hasReason, reason |-> reason]

\* body('reason').optional().trim().isLength({max: 200})
RevokeChainPasses(b) == b.hasReason => Len(Trim(b.reason)) <= 200

RevokeSanitized(b) == [b EXCEPT !.reason = Trim(@)]

AdminIP == "10.0.0.1"

CreateRequest(bearer, body) ==
  [op |-> "create", bearer |-> bearer, ip |-> AdminIP, body |-> body]
UpdateRequest(bearer, id, body) ==
  [op |-> "update", bearer |-> bearer, ip |-> AdminIP, id |-> id, body |-> body]
DeleteRequest(bearer, id) ==
  [op |-> "delete", bearer |-> bearer, ip |-> AdminIP, id |-> id]
RevokeRequest(bearer, id, body) ==
  [op |-> "revoke", bearer |-> bearer, ip |-> AdminIP, id |-> id, body |-> body]

CreateRequests ==
  {CreateRequest(Bearer(ClaimsAnn), CreateBody(i, n)) :
     i \in {ID_A, ID_B}, n \in {TextEvePadded, TextE}}
  \cup {CreateRequest(Bearer(ClaimsAnn), CreateBody(ID_SHORT, TextEve)),
        CreateRequest(Bearer(ClaimsVic), CreateBody(ID_B, TextEve)),
        CreateRequest(Bearer(ClaimsSam), CreateBody(ID_B, TextEve))}

UpdateRequests ==
  {UpdateRequest(Bearer(ClaimsAnn), ID_A, b) : b \in UpdateBodies}
  \cup {UpdateRequest(Bearer(c), i, UpdateBody({"notes"}, <<>>, <<>>,
                                               DateString(TRUE, 0), TextMarkup, NoExtra)) :
          c \in {ClaimsAnn, ClaimsVic, ClaimsSam}, i \in {ID_B, ID_ABSENT}}

DeleteRequests ==
  {DeleteRequest(Bearer(c), i) :
     c \in {ClaimsAnn, ClaimsVic, ClaimsSam}, i \in {ID_A, ID_ABSENT}}
  \cup {DeleteRequest(b, ID_A) : b \in {NoBearer, ExpiredBearer, ForgedBearer}}

RevokeRequests ==
  {RevokeRequest(Bearer(ClaimsAnn), i, b) :
     i \in {ID_A, ID_ABSENT},
     b \in {RevokeBody(FALSE, <<>>), RevokeBody(TRUE, TextFraudPadded)}}
  \cup {RevokeRequest(Bearer(c), ID_A, RevokeBody(TRUE, TextFraudPadded)) :
          c \in {ClaimsVic, ClaimsSam}}

AdminRequests == CreateRequests \cup UpdateRequests \cup DeleteRequests \cup RevokeRequests

----------------------------------------------------------------------------
(* Admin routes: documents, save, audit entries, responses                 *)

\* Certificate.findById(id); a document's _id is represented by the key the
\* model stores it under
findById(id) == IF id \in StoreIds THEN store[id] ELSE Null

\* new Certificate({...}) in the create handler: the body's fields, the
\* schema defaults, and no verificationHash
NewFromBody(b, username) ==
  [certificateId |-> ToUpperCase(b.certificateId),
   isVerified |-> TRUE,
   verificationCount |-> 0,
   lastVerifiedAt |-> 0,
   revokedAt |-> 0,
   revocationReason |-> <<>>,
   isRevoked |-> FALSE,
   ipAddresses |-> <<>>,
   version |-> 0,
   recipientName |-> sanitizeInput(b.recipientName),
   recipientEmail |-> ToLowerCase(b.recipientEmail),
   program |-> b.program,
   programCategory |-> b.programCategory,
   awardDate |-> b.awardDate.time,
   notes |-> IF b.notes # <<>> THEN sanitizeInput(b.notes) ELSE <<>>,
   verificationHash |-> Null,
   createdBy |-> username,
   updatedBy |-> "",
   updatedAt |-> 0]

\* the schema validation save() runs first: required paths, match, lengths
\* and enums
SchemaValid(d) ==
  /\ MatchesSevenDigits(d.certificateId)
  /\ Len(d.recipientName) >= 2 /\ Len(d.recipientName) <= 100
  /\ SchemaEmailMatches(d.recipientEmail)
  /\ d.program \in Programs
  /\ d.programCategory \in ProgramCategories
  /\ d.verificationHash # Null
  /\ Len(d.notes) <= 500

\* certificateSchema.pre('save'), run once validation has passed
preSave(d, t) ==
  [d EXCEPT
     !.verificationHash = IF @ = Null THEN [hashOf |-> d.certificateId] ELSE @,
     !.recipientEmail = ToLowerCase(Trim(@)),
     !.recipientName = Trim(@)]

\* the paths on which the in-memory document differs from the loaded one
ModifiedPaths(loaded, d) == {f \in DOMAIN d : d[f] # loaded[f]}

\* timestamps option: a save of a modified document stamps updatedAt
Stamped(loaded, d, t) ==
  IF ModifiedPaths(loaded, d) # {} THEN [d EXCEPT !.updatedAt = t] ELSE d

\* the update handler reading every field of the body into the document
applyUpdate_MassAssign(certificate, b, username) ==
  LET c == IF b.extra = Null THEN certificate
           ELSE [certificate EXCEPT
                   !.program = b.extra.program,
                   !.programCategory = b.extra.programCategory,
                   !.isRevoked = b.extra.isRevoked,
                   !.verificationCount = b.extra.verificationCount]
  IN [c EXCEPT
        !.recipientName = IF Has(b, "recipientName") /\ b.recipientName # <<>>
                          THEN sanitizeInput(b.recipientName) ELSE @,
        !.recipientEmail = IF Has(b, "recipientEmail") /\ b.recipientEmail # <<>>
                           THEN ToLowerCase(b.recipientEmail) ELSE @,
        !.awardDate = IF Has(b, "awardDate") THEN b.awardDate.time ELSE @,
        !.notes = IF Has(b, "notes") THEN sanitizeInput(b.notes) ELSE @,
        !.updatedBy = username]

\* the field assignments of the update handler; notes that are empty are
\* stored as null
applyUpdate(certificate, b, username) ==
  [certificate EXCEPT
     !.recipientName = IF Has(b, "recipientName") /\ b.recipientName # <<>>
                       THEN sanitizeInput(b.recipientName) ELSE @,
     !.recipientEmail = IF Has(b, "recipientEmail") /\ b.recipientEmail # <<>>
                        THEN ToLowerCase(b.recipientEmail) ELSE @,
     !.awardDate = IF Has(b, "awardDate") THEN b.awardDate.time ELSE @,
     !.notes = IF Has(b, "notes") THEN sanitizeInput(b.notes) ELSE @,
     !.updatedBy = username]

\* certificateSchema.methods.revoke, up to its save(); the default reason
\* applies when the body carries none
revoke(d, b, t) ==
  [d EXCEPT !.isRevoked = TRUE,
            !.revokedAt = t,
            !.revocationReason = IF b.hasReason THEN b.reason ELSE TextNoReason]

\* save() writing the whole in-memory document back
SavedPaths_WholeDocument(d, paths) == d

\* save() of a loaded document: the stored document after the $set of the
\* modified paths
SavedPaths(d, paths) ==
  LET cur == store[d.certificateId]
  IN [f \in DOMAIN cur |-> IF f \in paths THEN d[f] ELSE cur[f]]

AdminAuditEntry(action, r, entityId, status, errorMessage) ==
  [action |-> action, entityType |-> "CERTIFICATE", entityId |-> entityId,
   performedByUsername |-> ReqUser(r).username, ipAddress |-> r.ip,
   status |-> status, errorMessage |-> errorMessage]

CreatedResponse(d) ==
  [status |-> 201, message |-> "Certificate created successfully",
   certificateId |-> d.certificateId, recipientName |-> d.recipientName]
CreationFailedResponse ==
  [status |-> 500, error |-> "Creation Failed"]
CertificateNotFoundResponse ==
  [status |-> 404, error |-> "Not Found", message |-> "Certificate not found"]
UpdatedResponse(d) ==
  [status |-> 200, message |-> "Certificate updated successfully", certificate |-> d]
UpdateFailedResponse ==
  [status |-> 500, error |-> "Update Failed"]
DeletedResponse ==
  [status |-> 200, message |-> "Certificate deleted successfully"]
AlreadyRevokedResponse ==
  [status |-> 400, error |-> "Already Revoked",
   message |-> "Certificate is already revoked"]
RevokedOkResponse(d) ==
  [status |-> 200, message |-> "Certificate revoked successfully", certificate |-> d]
RevocationFailedResponse ==
  [status |-> 500, error |-> "Revocation Failed"]

----------------------------------------------------------------------------
(* Admin routes: one action per stretch of a handler between awaits        *)

\* A request to an admin route arrives: authenticateToken, the route's
\* authorizePermission and the synchronous validation chain run.
AdminReceive(p, r) ==
  /\ Idle(p)
  /\ started < MaxRequests
  /\ started' = started + 1
  /\ now' = now + 1
  /\ req' = [req EXCEPT ![p] = r]
  /\ doc' = [doc EXCEPT ![p] = Null]
  /\ delta' = [delta EXCEPT ![p] = NoDelta]
  /\ before' = [before EXCEPT ![p] = [store |-> store, audit |-> audit]]
  /\ IF AdminGate(r) # Null
     THEN /\ resp' = [resp EXCEPT ![p] = AdminGate(r)]
          /\ pc' = [pc EXCEPT ![p] = "done"]
     ELSE IF \/ r.op = "update" /\ ~UpdateChainPasses(r.body)
             \/ r.op = "revoke" /\ ~RevokeChainPasses(r.body)
     THEN /\ resp' = [resp EXCEPT ![p] = ValidationFailedResponse]
          /\ pc' = [pc EXCEPT ![p] = "done"]
     ELSE /\ resp' = [resp EXCEPT ![p] = Null]
          /\ pc' = [pc EXCEPT ![p] =
                      CASE r.op = "create" -> "createExists"
                        [] r.op = "update" -> "updateFind"
                        [] r.op = "delete" -> "deleteFind"
                        [] r.op = "revoke" -> "revokeFind"]
  /\ UNCHANGED <<store, audit, store0>>
  /\ UNCHANGED clientVars
  /\ UNCHANGED authVars

\* create with the uniqueness validator left out of the chain
CreateExists_Unchecked(p) ==
  /\ pc[p] = "createExists"
  /\ LET b == req[p].body
     IN IF ~CreateChainPasses(b)
        THEN /\ resp' = [resp EXCEPT ![p] = ValidationFailedResponse]
             /\ pc' = [pc EXCEPT ![p] = "done"]
             /\ UNCHANGED doc
        ELSE /\ doc' = [doc EXCEPT ![p] =
                          NewFromBody(CreateSanitized(b), ReqUser(req[p]).username)]
             /\ pc' = [pc EXCEPT ![p] = "createSave"]
             /\ UNCHANGED resp
  /\ UNCHANGED <<store, audit, now, started, req, delta>>
  /\ UNCHANGED <<store0, before>>
  /\ UNCHANGED clientVars
  /\ UNCHANGED authVars

\* create: the custom validator's Certificate.exists resolves, then
\* handleValidationErrors and the handler up to certificate.save()
CreateExists(p) ==
  /\ pc[p] = "createExists"
  /\ LET b == req[p].body
     IN IF ~CreateChainPasses(b) \/ findById(b.certificateId) # Null
        THEN /\ resp' = [resp EXCEPT ![p] = ValidationFailedResponse]
             /\ pc' = [pc EXCEPT ![p] = "done"]
             /\ UNCHANGED doc
        ELSE /\ doc' = [doc EXCEPT ![p] =
                          NewFromBody(CreateSanitized(b), ReqUser(req[p]).username)]
             /\ pc' = [pc EXCEPT ![p] = "createSave"]
             /\ UNCHANGED resp
  /\ UNCHANGED <<store, audit, now, started, req, delta>>
  /\ UNCHANGED <<store0, before>>
  /\ UNCHANGED clientVars
  /\ UNCHANGED authVars

\* create: certificate.save(): schema validation, then the pre('save') hook,
\* then the insert, which the unique index on certificateId may refuse
CreateSave(p) ==
  /\ pc[p] = "createSave"
  /\ LET d == doc[p]
     IN IF ~SchemaValid(d)
        THEN /\ delta' = [delta EXCEPT ![p] = [error |-> "ValidationError"]]
             /\ pc' = [pc EXCEPT ![p] = "createAuditFailed"]
             /\ UNCHANGED <<store, doc>>
        ELSE IF findById(d.certificateId) # Null
        THEN /\ delta' = [delta EXCEPT ![p] = [error |-> "E11000 duplicate key"]]
             /\ pc' = [pc EXCEPT ![p] = "createAuditFailed"]
             /\ UNCHANGED <<store, doc>>
        ELSE /\ store' = [store EXCEPT ![d.certificateId] =
                            [preSave(d, now) EXCEPT !.updatedAt = now]]
             /\ doc' = [doc EXCEPT ![p] = [preSave(d, now) EXCEPT !.updatedAt = now]]
             /\ pc' = [pc EXCEPT ![p] = "createAuditSuccess"]
             /\ UNCHANGED delta
  /\ UNCHANGED <<audit, now, started, req, resp>>
  /\ UNCHANGED <<store0, before>>
  /\ UNCHANGED clientVars
  /\ UNCHANGED authVars

\* update: findById resolves; the handler assigns the fields and calls save()
UpdateFind(p) ==
  /\ pc[p] = "updateFind"
  /\ LET certificate == findById(req[p].id)
     IN IF certificate = Null
        THEN /\ resp' = [resp EXCEPT ![p] = CertificateNotFoundResponse]
             /\ pc' = [pc EXCEPT ![p] = "done"]
             /\ UNCHANGED <<doc, delta>>
        ELSE LET updated == applyUpdate(certificate, UpdateSanitized(req[p].body),
                                        ReqUser(req[p]).username)
             IN /\ doc' = [doc EXCEPT ![p] = Stamped(certificate, updated, now)]
                /\ delta' = [delta EXCEPT ![p] =
                               [paths |-> ModifiedPaths(certificate,
                                            Stamped(certificate, updated, now))]]
                /\ pc' = [pc EXCEPT ![p] = "updateSave"]
                /\ UNCHANGED resp
  /\ UNCHANGED <<store, audit, now, started, req>>
  /\ UNCHANGED <<store0, before>>
  /\ UNCHANGED clientVars
  /\ UNCHANGED authVars

\* delete: findByIdAndDelete resolves
DeleteFind(p) ==
  /\ pc[p] = "deleteFind"
  /\ LET certificate == findById(req[p].id)
     IN IF certificate = Null
        THEN /\ resp' = [resp EXCEPT ![p] = CertificateNotFoundResponse]
             /\ pc' = [pc EXCEPT ![p] = "done"]
             /\ UNCHANGED <<store, doc>>
        ELSE /\ store' = [store EXCEPT ![req[p].id] = Null]
             /\ doc' = [doc EXCEPT ![p] = certificate]
             /\ pc' = [pc EXCEPT ![p] = "deleteAudit"]
             /\ UNCHANGED resp
  /\ UNCHANGED <<audit, now, started, req, delta>>
  /\ UNCHANGED <<store0, before>>
  /\ UNCHANGED clientVars
  /\ UNCHANGED authVars

\* revoke without the isRevoked test
RevokeFind_NoGuard(p) ==
  /\ pc[p] = "revokeFind"
  /\ LET certificate == findById(req[p].id)
     IN IF certificate = Null
        THEN /\ resp' = [resp EXCEPT ![p] = CertificateNotFoundResponse]
             /\ pc' = [pc EXCEPT ![p] = "done"]
             /\ UNCHANGED <<doc, delta>>
        ELSE LET revoked == revoke(certificate, RevokeSanitized(req[p].body), now)
             IN /\ doc' = [doc EXCEPT ![p] = Stamped(certificate, revoked, now)]
                /\ delta' = [delta EXCEPT ![p] =
                               [paths |-> ModifiedPaths(certificate,
                                            Stamped(certificate, revoked, now))]]
                /\ pc' = [pc EXCEPT ![p] = "revokeSave"]
                /\ UNCHANGED resp
  /\ UNCHANGED <<store, audit, now, started, req>>
  /\ UNCHANGED <<store0, before>>
  /\ UNCHANGED clientVars
  /\ UNCHANGED authVars

\* revoke: findById resolves; the handler tests isRevoked and calls
\* certificate.revoke(reason), which runs up to its save()
RevokeFind(p) ==
  /\ pc[p] = "revokeFind"
  /\ LET certificate == findById(req[p].id)
     IN IF certificate = Null
        THEN /\ resp' = [resp EXCEPT ![p] = CertificateNotFoundResponse]
             /\ pc' = [pc EXCEPT ![p] = "done"]
             /\ UNCHANGED <<doc, delta>>
        ELSE IF certificate.isRevoked
        THEN /\ resp' = [resp EXCEPT ![p] = AlreadyRevokedResponse]
             /\ pc' = [pc EXCEPT ![p] = "done"]
             /\ UNCHANGED <<doc, delta>>
        ELSE LET revoked == revoke(certificate, RevokeSanitized(req[p].body), now)
             IN /\ doc' = [doc EXCEPT ![p] = Stamped(certificate, revoked, now)]
                /\ delta' = [delta EXCEPT ![p] =
                               [paths |-> ModifiedPaths(certificate,
                                            Stamped(certificate, revoked, now))]]
                /\ pc' = [pc EXCEPT ![p] = "revokeSave"]
                /\ UNCHANGED resp
  /\ UNCHANGED <<store, audit, now, started, req>>
  /\ UNCHANGED <<store0, before>>
  /\ UNCHANGED clientVars
  /\ UNCHANGED authVars

\* update and revoke: save() of the loaded document: schema validation,
\* the pre('save') hook, then the $set of the modified paths; a validation
\* error or a document that is no longer stored rejects it and the
\* handler's catch replies
SaveExisting(p) ==
  /\ pc[p] \in {"updateSave", "revokeSave"}
  /\ IF SchemaValid(doc[p]) /\ findById(doc[p].certificateId) # Null
     THEN /\ store' = [store EXCEPT ![doc[p].certificateId] =
                         SavedPaths(preSave(doc[p], now), delta[p].paths)]
          /\ pc' = [pc EXCEPT ![p] =
                      IF pc[p] = "updateSave" THEN "updateAudit" ELSE "revokeAudit"]
          /\ UNCHANGED resp
     ELSE /\ resp' = [resp EXCEPT ![p] =
                        IF pc[p] = "updateSave" THEN UpdateFailedResponse
                        ELSE RevocationFailedResponse]
          /\ pc' = [pc EXCEPT ![p] = "done"]
          /\ UNCHANGED store
  /\ UNCHANGED <<audit, now, started, req, doc, delta>>
  /\ UNCHANGED <<store0, before>>
  /\ UNCHANGED clientVars
  /\ UNCHANGED authVars

\* AuditLog.create of the admin handlers
AdminAudit(p) ==
  /\ pc[p] \in {"createAuditSuccess", "createAuditFailed",
                "updateAudit", "deleteAudit", "revokeAudit"}
  /\ audit' = Append(audit,
       CASE pc[p] = "createAuditSuccess" ->
              AdminAuditEntry("CREATE", req[p], doc[p].certificateId, "SUCCESS", "")
         [] pc[p] = "createAuditFailed" ->
              AdminAuditEntry("CREATE", req[p], <<>>, "FAILED", delta[p].error)
         [] pc[p] = "updateAudit" ->
              AdminAuditEntry("UPDATE", req[p], doc[p].certificateId, "SUCCESS", "")
         [] pc[p] = "deleteAudit" ->
              AdminAuditEntry("DELETE", req[p], doc[p].certificateId, "SUCCESS", "")
         [] pc[p] = "revokeAudit" ->
              AdminAuditEntry("REVOKE", req[p], doc[p].certificateId, "SUCCESS", ""))
  /\ pc' = [pc EXCEPT ![p] =
              CASE pc[p] = "createAuditSuccess" -> "replyCreated"
                [] pc[p] = "createAuditFailed" -> "replyCreationFailed"
                [] pc[p] = "updateAudit" -> "replyUpdated"
                [] pc[p] = "deleteAudit" -> "replyDeleted"
                [] pc[p] = "revokeAudit" -> "replyRevoked"]
  /\ UNCHANGED <<store, now, started, req, doc, resp, delta>>
  /\ UNCHANGED <<store0, before>>
  /\ UNCHANGED clientVars
  /\ UNCHANGED authVars

\* res.json / res.status(...).json after the audit write resolved
AdminReply(p) ==
  /\ pc[p] \in {"replyCreated", "replyCreationFailed", "replyUpdated",
                "replyDeleted", "replyRevoked"}
  /\ resp' = [resp EXCEPT ![p] =
                CASE pc[p] = "replyCreated" -> CreatedResponse(doc[p])
                  [] pc[p] = "replyCreationFailed" -> CreationFailedResponse
                  [] pc[p] = "replyUpdated" -> UpdatedResponse(doc[p])
                  [] pc[p] = "replyDeleted" -> DeletedResponse
                  [] pc[p] = "replyRevoked" -> RevokedOkResponse(doc[p])]
  /\ pc' = [pc EXCEPT ![p] = "done"]
  /\ UNCHANGED <<store, audit, now, started, req, doc, delta>>
  /\ UNCHANGED <<store0, before>>
  /\ UNCHANGED clientVars
  /\ UNCHANGED authVars

----------------------------------------------------------------------------
(* Admin routes: GET /api/admin/certificates                               *)

RoleForbiddenResponse ==
  [status |-> 403, error |-> "Forbidden",
   message |-> "Insufficient permissions for this action"]

\* authorizeRole(allowedRoles): the response it sends, Null when it calls
\* next()
authorizeRole(user, allowedRoles) ==
  IF user = Null THEN NotAuthenticatedResponse
  ELSE IF user.role \notin allowedRoles THEN RoleForbiddenResponse
  ELSE Null

\* authorizeRole(['super_admin', 'admin', 'moderator'])
ListRoles == {"super_admin", "admin", "moderator"}

\* the default page size, parseInt(req.query.limit) || 20
ListLimit == 20

ListRequest(bearer) == [op |-> "list", bearer |-> bearer, ip |-> AdminIP]

\* .select('-ipAddresses')
ListedDocument(d) == [f \in DOMAIN d \ {"ipAddresses"} |-> d[f]]

ListResponse(certificates, total) ==
  [status |-> 200, page |-> 1, limit |-> ListLimit, total |-> total,
   certificates |-> certificates]

\* list arrives: authenticateToken and authorizeRole run; the request
\* carries no page or limit, so the validation chain passes
ListReceive(p, r) ==
  /\ Idle(p)
  /\ started < MaxRequests
  /\ started' = started + 1
  /\ now' = now + 1
  /\ req' = [req EXCEPT ![p] = r]
  /\ doc' = [doc EXCEPT ![p] = Null]
  /\ delta' = [delta EXCEPT ![p] = NoDelta]
  /\ before' = [before EXCEPT ![p] = [store |-> store, audit |-> audit]]
  /\ LET refusal == IF authenticateToken(r.bearer) # Null
                    THEN authenticateToken(r.bearer)
                    ELSE authorizeRole(ReqUser(r), ListRoles)
     IN IF refusal # Null
        THEN /\ resp' = [resp EXCEPT ![p] = refusal]
             /\ pc' = [pc EXCEPT ![p] = "done"]
        ELSE /\ resp' = [resp EXCEPT ![p] = Null]
             /\ pc' = [pc EXCEPT ![p] = "listFind"]
  /\ UNCHANGED <<store, audit, store0>>
  /\ UNCHANGED clientVars
  /\ UNCHANGED authVars

\* list: Certificate.find().skip(0).limit(20) resolves; the page is kept as
\* the set of its documents
ListFind(p) ==
  /\ pc[p] = "listFind"
  /\ LET stored == {id \in StoreIds : store[id] # Null}
     IN \E page \in SUBSET stored :
          /\ Cardinality(page) = Min(Cardinality(stored), ListLimit)
          /\ delta' = [delta EXCEPT ![p] =
                         [certificates |-> {ListedDocument(store[id]) : id \in page}]]
  /\ pc' = [pc EXCEPT ![p] = "listCount"]
  /\ UNCHANGED <<store, audit, now, started, req, doc, resp>>
  /\ UNCHANGED <<store0, before>>
  /\ UNCHANGED clientVars
  /\ UNCHANGED authVars

\* list: Certificate.countDocuments() resolves and the handler replies
ListCount(p) ==
  /\ pc[p] = "listCount"
  /\ resp' = [resp EXCEPT ![p] =
                ListResponse(delta[p].certificates,
                             Cardinality({id \in StoreIds : store[id] # Null}))]
  /\ pc' = [pc EXCEPT ![p] = "done"]
  /\ UNCHANGED <<store, audit, now, started, req, doc, delta>>
  /\ UNCHANGED <<store0, before>>
  /\ UNCHANGED clientVars
  /\ UNCHANGED authVars

----------------------------------------------------------------------------
(* Admin accounts and the auth routes                                      *)

\* failed attempts from which isLocked reports a lock, and the length of the
\* lock window; the clock of the auth routes counts minutes
MaxLoginAttempts == 5
LockWindow == 30

NameRoot == <<"r", "o", "o", "t">>
NameRootTyped == <<" ", "R", "o", "o", "t">>
NameIdle == <<"i", "d", "l", "e">>
NameNobody == <<"n", "o", "b", "o", "d", "y">>
NameAb == <<"a", "b">>

AdminNames == {NameRoot, NameIdle}

PwCorrect == <<"P", "a", "s", "s", "w", "0", "r", "d", "!">>
PwWrong == <<"w", "r", "o", "n", "g", "p", "a", "s", "s">>
PwShort == <<"s", "h", "o", "r", "t">>
PwNew == <<"N", "e", "w", "p", "a", "s", "s", "1", "!">>

\* bcrypt.hash of a plain password
Hash(plain) == [bcrypt |-> plain]

\* an Admin document with the schema defaults (models/Admin.js)
NewAdmin(username, isActive) ==
  [username |-> username,
   passwordHash |-> Hash(PwCorrect),
   role |-> "admin",
   permissions |-> DefaultPermissions,
   isActive |-> isActive,
   lastLogin |-> 0,
   lastLoginIP |-> "",
   loginAttempts |-> [count |-> 0, lastAttemptAt |-> 0]]

\* Admin.findOne({username})
findAdmin(username) == IF username \in AdminNames THEN admins[username] ELSE Null

\* adminSchema.methods.comparePassword
comparePassword(a, plain) == a.passwordHash = Hash(plain)

\* the lock taking effect one attempt later
isLocked_AfterSixth(a, t) ==
  /\ a.loginAttempts.count > MaxLoginAttempts
  /\ t - a.loginAttempts.lastAttemptAt < LockWindow

\* adminSchema.methods.isLocked
isLocked(a, t) ==
  /\ a.loginAttempts.count >= MaxLoginAttempts
  /\ t - a.loginAttempts.lastAttemptAt < LockWindow

\* recordFailedLogin starting the count afresh once the lock window lapsed
recordFailedLogin_ResetAfterLapse(a, ip, t) ==
  [a EXCEPT !.loginAttempts.count =
              IF @ >= MaxLoginAttempts /\ t - a.loginAttempts.lastAttemptAt >= LockWindow
              THEN 1 ELSE @ + 1,
            !.loginAttempts.lastAttemptAt = t,
            !.lastLoginIP = ip]

\* adminSchema.methods.recordFailedLogin, up to its save()
recordFailedLogin(a, ip, t) ==
  [a EXCEPT !.loginAttempts.count = @ + 1,
            !.loginAttempts.lastAttemptAt = t,
            !.lastLoginIP = ip]

\* adminSchema.methods.recordSuccessfulLogin, up to its save()
recordSuccessfulLogin(a, ip, t) ==
  [a EXCEPT !.loginAttempts.count = 0,
            !.lastLogin = t,
            !.lastLoginIP = ip]

\* save() after recordFailedLogin / recordSuccessfulLogin: the $set of the
\* paths the method assigned
SavedAdmin(cur, d, failed) ==
  IF failed
  THEN [cur EXCEPT !.loginAttempts.count = d.loginAttempts.count,
                   !.loginAttempts.lastAttemptAt = d.loginAttempts.lastAttemptAt,
                   !.lastLoginIP = d.lastLoginIP]
  ELSE [cur EXCEPT !.loginAttempts.count = d.loginAttempts.count,
                   !.lastLogin = d.lastLogin,
                   !.lastLoginIP = d.lastLoginIP]

\* an access token without the role claim
generateToken_WithoutRole(a) ==
  [username |-> a.username, permissions |-> a.permissions, expiresIn |-> "24h"]

\* generateToken(admin) and generateRefreshToken(admin)
generateToken(a) ==
  [username |-> a.username, role |-> a.role, permissions |-> a.permissions,
   expiresIn |-> "24h"]
generateRefreshToken(a) == [username |-> a.username, expiresIn |-> "7d"]

\* the time span jwt.sign reads from its expiresIn option, in hours
ExpiresInHours(span) ==
  CASE span = "24h" -> 24
    [] span = "7d" -> 7 * 24

LoginRequest(username, password) ==
  [op |-> "login", username |-> username, password |-> password, ip |-> AdminIP]

LoginRequests ==
  {LoginRequest(NameRootTyped, w) : w \in {PwCorrect, PwWrong, PwShort}}
  \cup {LoginRequest(NameNobody, w) : w \in {PwWrong, PwShort}}
  \cup {LoginRequest(NameIdle, PwWrong), LoginRequest(NameAb, PwWrong)}

\* minutes that pass between two requests to the auth routes
TimeSteps == {1, 29}

\* body('username').trim().isLength({min: 3}), body('password').isLength({min: 8})
LoginChainPasses(r) == Len(Trim(r.username)) >= 3 /\ Len(r.password) >= 8

\* username.toLowerCase() of the trimmed body field
LoginName(r) == ToLowerCase(Trim(r.username))

LoginAuditEntry(username, ip, status, errorMessage) ==
  [action |-> "LOGIN", entityType |-> "ADMIN", performedByUsername |-> username,
   ipAddress |-> ip, status |-> status, errorMessage |-> errorMessage]

AdminNotFoundLoginResponse ==
  [status |-> 401, error |-> "Authentication Failed",
   message |-> "Invalid username or password"]

AccountLockedResponse ==
  [status |-> 429, error |-> "Account Locked",
   message |-> "Account is locked due to too many failed login attempts"]

AccountInactiveResponse ==
  [status |-> 403, error |-> "Forbidden",
   message |-> "This admin account is inactive"]

\* the wrong-password reply naming its cause
InvalidPasswordResponse_Specific ==
  [status |-> 401, error |-> "Authentication Failed",
   message |-> "Invalid password"]

InvalidPasswordResponse ==
  [status |-> 401, error |-> "Authentication Failed",
   message |-> "Invalid username or password"]

LoginSuccessResponse(a) ==
  [status |-> 200, message |-> "Login successful",
   accessToken |-> generateToken(a),
   refreshToken |-> generateRefreshToken(a),
   user |-> [username |-> a.username, role |-> a.role,
             permissions |-> a.permissions]]

\* the entry the history keeps of an answered login attempt: the request,
\* the minute it arrived, the account as stored on arrival, and the response
Attempt(r, t, account, response) ==
  [request |-> r, at |-> t, account |-> account, response |-> response]

\* POST /api/auth/login arrives: the validation chain and
\* handleValidationErrors run
LoginReceive(p, r) ==
  /\ Idle(p)
  /\ started < MaxRequests
  /\ started' = started + 1
  /\ \E d \in TimeSteps :
       /\ now' = now + d
       /\ IF ~LoginChainPasses(r)
          THEN /\ resp' = [resp EXCEPT ![p] = ValidationFailedResponse]
               /\ pc' = [pc EXCEPT ![p] = "done"]
               /\ attempts' = Append(attempts,
                    Attempt(r, now + d, findAdmin(LoginName(r)), ValidationFailedResponse))
          ELSE /\ resp' = [resp EXCEPT ![p] = Null]
               /\ pc' = [pc EXCEPT ![p] = "loginFind"]
               /\ UNCHANGED attempts
  /\ req' = [req EXCEPT ![p] = r]
  /\ doc' = [doc EXCEPT ![p] = Null]
  /\ delta' = [delta EXCEPT ![p] = NoDelta]
  /\ before' = [before EXCEPT ![p] =
                  [store |-> store, audit |-> audit, admins |-> admins]]
  /\ UNCHANGED <<store, audit, store0, admins>>
  /\ UNCHANGED clientVars

\* login: Admin.findOne resolves; the handler tests the lock and the
\* active flag and calls comparePassword
LoginFind(p) ==
  /\ pc[p] = "loginFind"
  /\ LET admin == findAdmin(LoginName(req[p]))
         account == IF LoginName(req[p]) \in AdminNames
                    THEN before[p].admins[LoginName(req[p])] ELSE Null
     IN IF admin = Null
        THEN /\ pc' = [pc EXCEPT ![p] = "loginAuditNotFound"]
             /\ UNCHANGED <<doc, resp, attempts>>
        ELSE IF isLocked(admin, now)
        THEN /\ resp' = [resp EXCEPT ![p] = AccountLockedResponse]
             /\ pc' = [pc EXCEPT ![p] = "done"]
             /\ attempts' = Append(attempts,
                  Attempt(req[p], now, account, AccountLockedResponse))
             /\ UNCHANGED doc
        ELSE IF ~admin.isActive
        THEN /\ resp' = [resp EXCEPT ![p] = AccountInactiveResponse]
             /\ pc' = [pc EXCEPT ![p] = "done"]
             /\ attempts' = Append(attempts,
                  Attempt(req[p], now, account, AccountInactiveResponse))
             /\ UNCHANGED doc
        ELSE /\ doc' = [doc EXCEPT ![p] = admin]
             /\ pc' = [pc EXCEPT ![p] = "loginCompare"]
             /\ UNCHANGED <<resp, attempts>>
  /\ UNCHANGED <<store, audit, now, started, req, delta, admins>>
  /\ UNCHANGED <<store0, before>>
  /\ UNCHANGED clientVars

\* login: comparePassword resolves; recordFailedLogin or
\* recordSuccessfulLogin runs up to its save()
LoginCompare(p) ==
  /\ pc[p] = "loginCompare"
  /\ IF comparePassword(doc[p], req[p].password)
     THEN /\ doc' = [doc EXCEPT ![p] = recordSuccessfulLogin(@, req[p].ip, now)]
          /\ pc' = [pc EXCEPT ![p] = "loginSaveSuccess"]
     ELSE /\ doc' = [doc EXCEPT ![p] = recordFailedLogin(@, req[p].ip, now)]
          /\ pc' = [pc EXCEPT ![p] = "loginSaveFailed"]
  /\ UNCHANGED <<store, audit, now, started, req, resp, delta, admins, attempts>>
  /\ UNCHANGED <<store0, before>>
  /\ UNCHANGED clientVars

\* login: the save() of recordFailedLogin / recordSuccessfulLogin reaches
\* the database
LoginSave(p) ==
  /\ pc[p] \in {"loginSaveSuccess", "loginSaveFailed"}
  /\ admins' = [admins EXCEPT ![doc[p].username] =
                  SavedAdmin(@, doc[p], pc[p] = "loginSaveFailed")]
  /\ pc' = [pc EXCEPT ![p] =
              IF pc[p] = "loginSaveFailed" THEN "loginAuditFailed"
              ELSE "loginAuditSuccess"]
  /\ UNCHANGED <<store, audit, now, started, req, doc, resp, delta, attempts>>
  /\ UNCHANGED <<store0, before>>
  /\ UNCHANGED clientVars

\* login: AuditLog.create
LoginAudit(p) ==
  /\ pc[p] \in {"loginAuditNotFound", "loginAuditFailed", "loginAuditSuccess"}
  /\ audit' = Append(audit,
       CASE pc[p] = "loginAuditNotFound" ->
              LoginAuditEntry(<<>>, req[p].ip, "FAILED", "Admin not found")
         [] pc[p] = "loginAuditFailed" ->
              LoginAuditEntry(Trim(req[p].username), req[p].ip, "FAILED",
                              "Invalid password")
         [] pc[p] = "loginAuditSuccess" ->
              LoginAuditEntry(doc[p].username, req[p].ip, "SUCCESS", ""))
  /\ pc' = [pc EXCEPT ![p] =
              CASE pc[p] = "loginAuditNotFound" -> "replyNotFound"
                [] pc[p] = "loginAuditFailed" -> "replyInvalidPassword"
                [] pc[p] = "loginAuditSuccess" -> "replyLoggedIn"]
  /\ UNCHANGED <<store, now, started, req, doc, resp, delta, admins, attempts>>
  /\ UNCHANGED <<store0, before>>
  /\ UNCHANGED clientVars

\* login: res.json / res.status(401).json after the audit write resolved
LoginReply(p) ==
  /\ pc[p] \in {"replyNotFound", "replyInvalidPassword", "replyLoggedIn"}
  /\ LET response == CASE pc[p] = "replyNotFound" -> AdminNotFoundLoginResponse
                       [] pc[p] = "replyInvalidPassword" -> InvalidPasswordResponse
                       [] pc[p] = "replyLoggedIn" -> LoginSuccessResponse(doc[p])
         account == IF LoginName(req[p]) \in AdminNames
                    THEN before[p].admins[LoginName(req[p])] ELSE Null
     IN /\ resp' = [resp EXCEPT ![p] = response]
        /\ attempts' = Append(attempts, Attempt(req[p], now, account, response))
  /\ pc' = [pc EXCEPT ![p] = "done"]
  /\ UNCHANGED <<store, audit, now, started, req, doc, delta, admins>>
  /\ UNCHANGED <<store0, before>>
  /\ UNCHANGED clientVars

\* the claims of root's access token
ClaimsRoot == TokenClaims(NameRoot, "admin", DefaultPermissions)

ChangePasswordRequest(bearer, currentPassword, newPassword) ==
  [op |-> "changePassword", bearer |-> bearer, ip |-> AdminIP,
   currentPassword |-> currentPassword, newPassword |-> newPassword]

ChangePasswordRequests ==
  {ChangePasswordRequest(Bearer(ClaimsRoot), c, n) :
     c \in {PwCorrect, PwWrong}, n \in {PwNew, PwWrong}}
  \cup {ChangePasswordRequest(NoBearer, PwCorrect, PwNew)}

\* .isLength({min: 8}) on both fields; the new password matches
\* /^(?=.*[a-z])(?=.*[A-Z])(?=.*\d)(?=.*[@$!%*?&])/ and differs from the
\* current one
ChangePasswordChainPasses(r) ==
  /\ Len(r.currentPassword) >= 8
  /\ Len(r.newPassword) >= 8
  /\ \E i \in 1..Len(r.newPassword) : r.newPassword[i] \in LowerLetters
  /\ \E i \in 1..Len(r.newPassword) : r.newPassword[i] \in UpperLetters
  /\ \E i \in 1..Len(r.newPassword) : r.newPassword[i] \in Digits
  /\ \E i \in 1..Len(r.newPassword) :
       r.newPassword[i] \in {"@", "$", "!", "%", "*", "?", "&"}
  /\ r.newPassword # r.currentPassword

PasswordChangeFailedResponse ==
  [status |-> 500, error |-> "Password Change Failed"]
AdminNotFoundResponse ==
  [status |-> 404, error |-> "Not Found", message |-> "Admin not found"]
CurrentPasswordIncorrectResponse ==
  [status |-> 401, error |-> "Authentication Failed",
   message |-> "Current password is incorrect"]
PasswordChangedResponse ==
  [status |-> 200, message |-> "Password changed successfully"]

PasswordAuditEntry(username, ip, status, errorMessage) ==
  [action |-> "UPDATE", entityType |-> "ADMIN", entityId |-> username,
   performedByUsername |-> username, ipAddress |-> ip, status |-> status,
   errorMessage |-> errorMessage]

\* POST /api/auth/change-password, the whole handler: the validation chain,
\* then req.user.id is read (a TypeError when req.user is undefined, which
\* the catch answers), then findById, comparePassword, save with the
\* pre('save') hash, and the audit entry
ChangePassword(p, r) ==
  /\ Idle(p)
  /\ started < MaxRequests
  /\ started' = started + 1
  /\ now' = now + 1
  /\ req' = [req EXCEPT ![p] = r]
  /\ doc' = [doc EXCEPT ![p] = Null]
  /\ delta' = [delta EXCEPT ![p] = NoDelta]
  /\ before' = [before EXCEPT ![p] =
                  [store |-> store, audit |-> audit, admins |-> admins]]
  /\ pc' = [pc EXCEPT ![p] = "done"]
  /\ IF ~ChangePasswordChainPasses(r)
     THEN /\ resp' = [resp EXCEPT ![p] = ValidationFailedResponse]
          /\ UNCHANGED <<audit, admins>>
     ELSE IF ReqUser(r) = Null
     THEN /\ resp' = [resp EXCEPT ![p] = PasswordChangeFailedResponse]
          /\ UNCHANGED <<audit, admins>>
     ELSE IF findAdmin(ReqUser(r).username) = Null
     THEN /\ resp' = [resp EXCEPT ![p] = AdminNotFoundResponse]
          /\ UNCHANGED <<audit, admins>>
     ELSE IF ~comparePassword(findAdmin(ReqUser(r).username), r.currentPassword)
     THEN /\ resp' = [resp EXCEPT ![p] = CurrentPasswordIncorrectResponse]
          /\ audit' = Append(audit, PasswordAuditEntry(ReqUser(r).username, r.ip,
                                      "FAILED", "Invalid current password"))
          /\ UNCHANGED admins
     ELSE /\ resp' = [resp EXCEPT ![p] = PasswordChangedResponse]
          /\ admins' = [admins EXCEPT ![ReqUser(r).username].passwordHash =
                                         Hash(r.newPassword)]
          /\ audit' = Append(audit, PasswordAuditEntry(ReqUser(r).username, r.ip,
                                      "SUCCESS", ""))
  /\ UNCHANGED <<store, store0, attempts>>
  /\ UNCHANGED clientVars

LogoutRequest(bearer) == [op |-> "logout", bearer |-> bearer, ip |-> AdminIP]

LogoutRequests == {LogoutRequest(NoBearer), LogoutRequest(Bearer(ClaimsRoot))}

LogoutAuditEntry(username, ip) ==
  [action |-> "LOGOUT", entityType |-> "ADMIN", performedByUsername |-> username,
   ipAddress |-> ip, status |-> "SUCCESS", errorMessage |-> ""]

LogoutResponse == [status |-> 200, message |-> "Logout successful"]

\* POST /api/auth/logout, the whole handler: the audit entry is written only
\* when req.user is set, and the reply is the same either way
Logout(p, r) ==
  /\ Idle(p)
  /\ started < MaxRequests
  /\ started' = started + 1
  /\ now' = now + 1
  /\ req' = [req EXCEPT ![p] = r]
  /\ doc' = [doc EXCEPT ![p] = Null]
  /\ delta' = [delta EXCEPT ![p] = NoDelta]
  /\ before' = [before EXCEPT ![p] =
                  [store |-> store, audit |-> audit, admins |-> admins]]
  /\ audit' = IF ReqUser(r) # Null
              THEN Append(audit, LogoutAuditEntry(ReqUser(r).username, r.ip))
              ELSE audit
  /\ resp' = [resp EXCEPT ![p] = LogoutResponse]
  /\ pc' = [pc EXCEPT ![p] = "done"]
  /\ UNCHANGED <<store, store0, admins, attempts>>
  /\ UNCHANGED clientVars

----------------------------------------------------------------------------
(* Public search route                                                     *)

\* .limit(20)
SearchLimit == 20

TextAd == <<"a", "d">>

SearchRequest(bearer, hasRecipient, recipient, hasProgram, program) ==
  [op |-> "search", bearer |-> bearer, ip |-> AdminIP,
   hasRecipient |-> hasRecipient, recipient |-> recipient,
   hasProgram |-> hasProgram, program |-> program]

SearchRequests ==
  {SearchRequest(b, t[1], t[2], g[1], g[2]) :
     b \in {NoBearer, Bearer(ClaimsAnn)},
     t \in {<<FALSE, <<>>>>, <<TRUE, TextAd>>, <<TRUE, TextBob>>, <<TRUE, TextE>>},
     g \in {<<FALSE, "">>, <<TRUE, "Web Development">>, <<TRUE, "Other">>}}

\* query('recipient') and query('program'), both optional()
SearchChainPasses(r) ==
  /\ r.hasRecipient => NameChainPasses(r.recipient)
  /\ r.hasProgram => r.program \in Programs \ {"Other"}

\* new RegExp(term, 'i').test(name) for a term of letters, spaces, ' and -
MatchesIgnoringCase(name, term) == Contains(ToLowerCase(name), ToLowerCase(term))

\* the filter Certificate.find receives
SearchMatches(d, r) ==
  /\ d # Null
  /\ ~d.isRevoked
  /\ (r.hasRecipient /\ Trim(r.recipient) # <<>> /\ ReqUser(r) # Null)
       => MatchesIgnoringCase(d.recipientName, sanitizeInput(Trim(r.recipient)))
  /\ r.hasProgram => d.program = r.program

\* .select('certificateId program awardDate')
SearchResult(d) ==
  [certificateId |-> d.certificateId, program |-> d.program,
   awardDate |-> d.awardDate]

SearchResponse(results) ==
  [status |-> 200, count |-> Cardinality(results), results |-> results]

\* GET /api/certificates/search arrives: the validation chain runs
SearchReceive(p, r) ==
  /\ Idle(p)
  /\ started < MaxRequests
  /\ started' = started + 1
  /\ now' = now + 1
  /\ req' = [req EXCEPT ![p] = r]
  /\ doc' = [doc EXCEPT ![p] = Null]
  /\ delta' = [delta EXCEPT ![p] = NoDelta]
  /\ before' = [before EXCEPT ![p] = [store |-> store, audit |-> audit]]
  /\ IF ~SearchChainPasses(r)
     THEN /\ resp' = [resp EXCEPT ![p] = ValidationFailedResponse]
          /\ pc' = [pc EXCEPT ![p] = "done"]
     ELSE /\ resp' = [resp EXCEPT ![p] = Null]
          /\ pc' = [pc EXCEPT ![p] = "searchFind"]
  /\ UNCHANGED <<store, audit, store0>>
  /\ UNCHANGED clientVars
  /\ UNCHANGED authVars

\* search: Certificate.find(query).limit(20) resolves and the handler replies
SearchFind(p) ==
  /\ pc[p] = "searchFind"
  /\ LET matching == {id \in StoreIds : SearchMatches(store[id], req[p])}
     IN \E chosen \in SUBSET matching :
          /\ Cardinality(chosen) = Min(Cardinality(matching), SearchLimit)
          /\ resp' = [resp EXCEPT ![p] =
                        SearchResponse({SearchResult(store[id]) : id \in chosen})]
  /\ pc' = [pc EXCEPT ![p] = "done"]
  /\ UNCHANGED <<store, audit, now, started, req, doc, delta>>
  /\ UNCHANGED <<store0, before>>
  /\ UNCHANGED clientVars
  /\ UNCHANGED authVars

----------------------------------------------------------------------------
(* Specifications                                                          *)

ServerInit ==
  /\ store \in [StoreIds -> UNION {InitialDocs(id) : id \in StoreIds}]
  /\ \A id \in StoreIds : store[id] \in InitialDocs(id)
  /\ audit = <<>>
  /\ now = 2
  /\ started = 0
  /\ pc = [p \in Slots |-> "idle"]
  /\ req = [p \in Slots |-> NoRequest]
  /\ doc = [p \in Slots |-> Null]
  /\ resp = [p \in Slots |-> Null]
  /\ delta = [p \in Slots |-> NoDelta]
  /\ store0 = store
  /\ before = [p \in Slots |-> Null]

ClientIdle ==
  /\ input = <<>>
  /\ result = Pending
  /\ parsed = Pending
  /\ virtuals = Pending

AuthIdle ==
  /\ admins = [n \in AdminNames |-> Null]
  /\ attempts = <<>>

Init == ServerInit /\ ClientIdle /\ AuthIdle

HandlerStep(p) ==
  \/ VerifyFind(p)
  \/ VerifyAuditNotFound(p)
  \/ VerifyAuditRevoked(p)
  \/ VerifySave(p)
  \/ VerifyAuditSuccess(p)
  \/ VerifyReply(p)
  \/ CheckExists(p)

\* requests served one after another
Next ==
  \/ \E r \in Requests : NoneInFlight /\ Receive(1, r)
  \/ HandlerStep(1)

Spec == Init /\ [][Next]_vars

\* requests served concurrently: a request is accepted on any free slot
NextConcurrent ==
  \E p \in Slots :
    \/ \E r \in ConcurrentRequests : Receive(p, r)
    \/ HandlerStep(p)

SpecConcurrent == Init /\ [][NextConcurrent]_vars

\* the public routes asked for 7-digit ids outside the Validator's ranges:
\* 1901001 has year digits 19, 2501000 has serial 000
ID_YEAR19 == <<"1", "9", "0", "1", "0", "0", "1">>
ID_SERIAL000 == <<"2", "5", "0", "1", "0", "0", "0">>

\* each request carries its id in the path and, when it has a query string,
\* as certificateId=<id> too
RangeRequests ==
  {[op |-> o, pathId |-> i, hasQuery |-> q, queryId |-> IF q THEN i ELSE <<>>,
    ip |-> a] :
     o \in {"verify", "check"}, i \in {ID_A, ID_YEAR19, ID_SERIAL000},
     q \in BOOLEAN, a \in ClientIPs}

NextRange ==
  \/ \E r \in RangeRequests : NoneInFlight /\ Receive(1, r)
  \/ HandlerStep(1)

SpecRange == Init /\ [][NextRange]_vars

\* the browser codec and validator
ServerIdle ==
  /\ store = [id \in StoreIds |-> Null]
  /\ audit = <<>>
  /\ now = 2
  /\ started = 0
  /\ pc = [p \in Slots |-> "idle"]
  /\ req = [p \in Slots |-> NoRequest]
  /\ doc = [p \in Slots |-> Null]
  /\ resp = [p \in Slots |-> Null]
  /\ delta = [p \in Slots |-> NoDelta]
  /\ store0 = store
  /\ before = [p \in Slots |-> Null]

InitClient == ServerIdle /\ input \in ClientInputs /\ result = Pending
              /\ parsed = Pending /\ virtuals = Pending /\ AuthIdle

NextClient == ClientValidate \/ ClientParse \/ ReadVirtuals

SpecClient == InitClient /\ [][NextClient]_vars

----------------------------------------------------------------------------
(* Specifications of the admin, auth and search routes                     *)

\* the admin certificate routes, one request at a time, over a collection
\* holding 2501001 (active or revoked) and possibly 2502001
InitAdmin ==
  /\ store \in [StoreIds -> {Null} \cup UNION {InitialDocs(id) : id \in StoreIds}]
  /\ store[ID_A] \in {NewCertificate(ID_A), RevokedCertificate(ID_A)}
  /\ store[ID_B] \in {Null, NewCertificate(ID_B)}
  /\ audit = <<>>
  /\ now = 2
  /\ started = 0
  /\ pc = [p \in Slots |-> "idle"]
  /\ req = [p \in Slots |-> NoRequest]
  /\ doc = [p \in Slots |-> Null]
  /\ resp = [p \in Slots |-> Null]
  /\ delta = [p \in Slots |-> NoDelta]
  /\ store0 = store
  /\ before = [p \in Slots |-> Null]
  /\ ClientIdle
  /\ AuthIdle

AdminStep(p) ==
  \/ CreateExists(p)
  \/ CreateSave(p)
  \/ UpdateFind(p)
  \/ DeleteFind(p)
  \/ RevokeFind(p)
  \/ SaveExisting(p)
  \/ AdminAudit(p)
  \/ AdminReply(p)

NextAdmin ==
  \/ \E r \in AdminRequests : NoneInFlight /\ AdminReceive(1, r)
  \/ AdminStep(1)

SpecAdmin == InitAdmin /\ [][NextAdmin]_vars

\* create requests served concurrently
ConcurrentCreateRequests ==
  {r \in CreateRequests : r.bearer = Bearer(ClaimsAnn) /\ r.body.recipientName # TextE}

NextCreateConcurrent ==
  \E p \in Slots :
    \/ \E r \in ConcurrentCreateRequests : AdminReceive(p, r)
    \/ CreateExists(p)
    \/ CreateSave(p)
    \/ AdminAudit(p)
    \/ AdminReply(p)

SpecCreateConcurrent == InitAdmin /\ [][NextCreateConcurrent]_vars

\* verify, check and create served one after another while the audit
\* collection may reject a write of the verify route
NextAuditFailure ==
  \/ \E r \in Requests : NoneInFlight /\ Receive(1, r)
  \/ \E r \in CreateRequests : NoneInFlight /\ AdminReceive(1, r)
  \/ HandlerStep(1)
  \/ VerifyAuditFails(1)
  \/ CreateExists(1)
  \/ CreateSave(1)
  \/ AdminAudit(1)
  \/ AdminReply(1)

SpecAuditFailure == InitAdmin /\ [][NextAuditFailure]_vars

\* the auth routes, one request at a time; the account "root" has already
\* failed this many logins in minute 1
PriorFailures == {0, 4, 5}

FailedBefore(k) ==
  [NewAdmin(NameRoot, TRUE) EXCEPT
     !.loginAttempts = [count |-> k, lastAttemptAt |-> IF k > 0 THEN 1 ELSE 0],
     !.lastLoginIP = IF k > 0 THEN AdminIP ELSE ""]

PriorAttempts(k) ==
  [i \in 1..k |-> Attempt(LoginRequest(NameRootTyped, PwWrong), 1,
                          FailedBefore(i - 1), InvalidPasswordResponse)]

PriorAudit(k) ==
  [i \in 1..k |-> LoginAuditEntry(Trim(NameRootTyped), AdminIP, "FAILED",
                                  "Invalid password")]

InitAuth ==
  /\ store = [id \in StoreIds |-> Null]
  /\ \E k \in PriorFailures :
       /\ admins = [n \in AdminNames |->
                      IF n = NameRoot THEN FailedBefore(k) ELSE NewAdmin(n, FALSE)]
       /\ attempts = PriorAttempts(k)
       /\ audit = PriorAudit(k)
  /\ now = 2
  /\ started = 0
  /\ pc = [p \in Slots |-> "idle"]
  /\ req = [p \in Slots |-> NoRequest]
  /\ doc = [p \in Slots |-> Null]
  /\ resp = [p \in Slots |-> Null]
  /\ delta = [p \in Slots |-> NoDelta]
  /\ store0 = store
  /\ before = [p \in Slots |-> Null]
  /\ ClientIdle

LoginStep(p) ==
  \/ LoginFind(p)
  \/ LoginCompare(p)
  \/ LoginSave(p)
  \/ LoginAudit(p)
  \/ LoginReply(p)

NextAuth ==
  \/ \E r \in LoginRequests : NoneInFlight /\ LoginReceive(1, r)
  \/ LoginStep(1)
  \/ \E r \in ChangePasswordRequests : NoneInFlight /\ ChangePassword(1, r)
  \/ \E r \in LogoutRequests : NoneInFlight /\ Logout(1, r)

SpecAuth == InitAuth /\ [][NextAuth]_vars

\* wrong-password logins on "root" served concurrently: a request is
\* accepted on any free slot and the handlers interleave at their awaits
NextLoginConcurrent ==
  \E p \in Slots :
    \/ LoginReceive(p, LoginRequest(NameRootTyped, PwWrong))
    \/ LoginStep(p)

SpecLoginConcurrent == InitAuth /\ [][NextLoginConcurrent]_vars

\* the search route, one request at a time
NextSearch ==
  \/ \E r \in SearchRequests : NoneInFlight /\ SearchReceive(1, r)
  \/ SearchFind(1)

SpecSearch == Init /\ [][NextSearch]_vars

\* public and admin requests on certificate 2501001 served concurrently: a
\* request is accepted on any free slot and the handlers interleave at
\* their awaits
RaceRequests ==
  {[op |-> o, pathId |-> ID_A, hasQuery |-> TRUE, queryId |-> ID_A,
    ip |-> "10.0.0.2"] : o \in {"verify", "check"}}
  \cup {RevokeRequest(Bearer(ClaimsAnn), ID_A, RevokeBody(FALSE, <<>>)),
        RevokeRequest(Bearer(ClaimsVic), ID_A, RevokeBody(TRUE, TextFraudPadded)),
        UpdateRequest(Bearer(ClaimsAnn), ID_A,
                      UpdateBody({"recipientName", "recipientEmail", "awardDate", "notes"},
                                 TextEve, EmailEve, DateString(TRUE, 7), TextMarkup,
                                 ExtraFields)),
        DeleteRequest(Bearer(ClaimsVic), ID_A),
        SearchRequest(NoBearer, FALSE, <<>>, FALSE, ""),
        ListRequest(Bearer(ClaimsAnn))}

NextRace ==
  \E p \in Slots :
    \/ \E r \in {q \in RaceRequests : q.op \in {"verify", "check"}} : Receive(p, r)
    \/ \E r \in {q \in RaceRequests : q.op = "search"} : SearchReceive(p, r)
    \/ \E r \in {q \in RaceRequests : q.op = "list"} : ListReceive(p, r)
    \/ \E r \in {q \in RaceRequests : q.op \in {"update", "delete", "revoke"}} :
         AdminReceive(p, r)
    \/ HandlerStep(p)
    \/ SearchFind(p)
    \/ ListFind(p)
    \/ ListCount(p)
    \/ UpdateFind(p)
    \/ DeleteFind(p)
    \/ RevokeFind(p)
    \/ SaveExisting(p)
    \/ AdminAudit(p)
    \/ AdminReply(p)

SpecRace == InitAdmin /\ [][NextRace]_vars

----------------------------------------------------------------------------
(* Properties of the browser codec and validator (SpecClient)              *)

\* the format rule as the specification states it: exactly 7 decimal digits
ExactlySevenDigits(s) ==
  /\ Len(s) = 7
  /\ \A i \in 1..7 : s[i] \in {"0", "1", "2", "3", "4", "5", "6", "7", "8", "9"}

\* seven decimal digits with nothing but white space before and after them
PaddedSevenDigits(s) ==
  \E k \in 0..(Len(s) - 7) :
    /\ \A i \in 1..k : s[i] \in {" ", "\t", "\n"}
    /\ ExactlySevenDigits([i \in 1..7 |-> s[k + i]])
    /\ \A i \in (k + 8)..Len(s) : s[i] \in {" ", "\t", "\n"}

YearDigitsOf(s) == 10 * DigitVal(s[1]) + DigitVal(s[2])
SerialOf(s) == 100 * DigitVal(s[5]) + 10 * DigitVal(s[6]) + DigitVal(s[7])

\* C7 (as claimed): every input string that does not match ^\d{7}$,
\* strings with surrounding white space included, is answered valid:false
\* with the invalid-format error.
C7_AnyNonMatchingIsFormatError ==
  (result # Pending /\ ~ExactlySevenDigits(input)) =>
     (result.valid = FALSE /\ result.error = ErrFormat)

\* C7 (amended): every input string that, once the white space at its two
\* ends is removed, is not exactly 7 decimal digits is answered valid:false
\* with the invalid-format error.
C7_NonMatchingAfterTrimIsFormatError ==
  (result # Pending /\ ~PaddedSevenDigits(input)) =>
     (result.valid = FALSE /\ result.error = ErrFormat)

\* an 8-character input without padding was validated and rejected
C7_Witness ==
  /\ result # Pending
  /\ Len(input) = 8
  /\ ~PaddedSevenDigits(input)
  /\ input[1] \notin WhiteSpace /\ input[8] \notin WhiteSpace
  /\ result.valid = FALSE

C9_DecodeSlices ==
  ExactlySevenDigits(input) =>
    /\ parsed # Pending =>
         /\ parsed # Null
         /\ parsed.id = input
         /\ parsed.year = <<"2", "0", input[1], input[2]>>
         /\ parsed.subProgram = <<input[3], input[4]>>
         /\ parsed.serial = <<input[5], input[6], input[7]>>
    /\ virtuals # Pending =>
         /\ virtuals.year = <<"2", "0", input[1], input[2]>>
         /\ virtuals.serialNumber = <<input[5], input[6], input[7]>>
    /\ (parsed # Pending /\ virtuals # Pending) =>
         /\ virtuals.year = parsed.year
         /\ virtuals.serialNumber = parsed.serial

\* 2501001 was decoded and its virtuals were read
C9_Witness ==
  /\ input = ID_A
  /\ parsed # Pending /\ parsed # Null
  /\ virtuals # Pending
  /\ parsed.serial = <<"0", "0", "1">>

----------------------------------------------------------------------------
(* Properties of the public routes                                         *)

\* slot p holds a request of this route that has been answered
Answered(p, op) == pc[p] = "done" /\ req[p] # NoRequest /\ req[p].op = op

StoredAt(st, id) == id \in StoreIds /\ st[id] # Null

VerifyEntriesSince(p) ==
  {i \in (Len(before[p].audit) + 1)..Len(audit) : audit[i].action = "VERIFY"}

\* C1 (as claimed): for a stored certificate that is not revoked, a
\* completed verify call with its 7-digit id returns verified:true with
\* year = "20" + first two digits and serialNumber = last three digits,
\* leaves the stored verificationCount one above its value before the call,
\* and returns the verificationCount stored after the call.
C1_VerifyActiveReturnsVerified ==
  \A id \in StoreIds :
    (/\ Answered(1, "verify")
     /\ req[1].pathId = id
     /\ StoredAt(before[1].store, id)
     /\ ~before[1].store[id].isRevoked)
    => /\ resp[1].status = 200
       /\ resp[1].verified = TRUE
       /\ resp[1].year = <<"2", "0", id[1], id[2]>>
       /\ resp[1].serialNumber = <<id[5], id[6], id[7]>>
       /\ store[id].verificationCount = before[1].store[id].verificationCount + 1
       /\ resp[1].verificationCount = store[id].verificationCount

\* C2 (as claimed): when two verify requests on the same active certificate
\* have both completed with verified:true, in whatever order their lookup,
\* increment and save steps ran, the stored verificationCount is the
\* initial value plus 2.
C2_NoLostIncrement ==
  (/\ started = 2
   /\ \A p \in Slots : /\ Answered(p, "verify")
                       /\ req[p].pathId = ID_A
                       /\ resp[p].status = 200)
  => store[ID_A].verificationCount = store0[ID_A].verificationCount + 2

\* C3 (as claimed): verify of a stored certificate whose isRevoked flag is
\* true returns status 410, verified:false with the stored revocationReason
\* and revokedAt, which is not the not-found outcome, and the record is
\* left as it was.
C3_VerifyRevokedReturnsRevoked ==
  \A id \in StoreIds :
    (/\ Answered(1, "verify")
     /\ req[1].pathId = id
     /\ StoredAt(before[1].store, id)
     /\ before[1].store[id].isRevoked)
    => /\ resp[1].status = 410
       /\ resp[1].verified = FALSE
       /\ resp[1].revocationReason = before[1].store[id].revocationReason
       /\ resp[1].revokedAt = before[1].store[id].revokedAt
       /\ resp[1] # NotFoundResponse
       /\ store[id] = before[1].store[id]

\* C4 (as claimed): verify of a well-formed 7-digit id with no stored
\* record returns status 404, verified:false, writes one VERIFY audit entry
\* with status FAILED, and changes no certificate record.
C4_VerifyMissingReturnsNotFound ==
  (/\ Answered(1, "verify")
   /\ ExactlySevenDigits(req[1].pathId)
   /\ ~StoredAt(before[1].store, req[1].pathId))
  => /\ resp[1].status = 404
     /\ resp[1].verified = FALSE
     /\ Len(audit) = Len(before[1].audit) + 1
     /\ audit[Len(audit)].action = "VERIFY"
     /\ audit[Len(audit)].status = "FAILED"
     /\ store = before[1].store

\* C5 (as claimed): a verify request whose path id is not exactly 7 decimal
\* digits is refused with the validation error before any lookup: the
\* handler is never entered, no certificate is changed and no audit entry
\* is written.
C5_MalformedPathRejectedBeforeLookup ==
  (/\ req[1] # NoRequest
   /\ req[1].op = "verify"
   /\ ~ExactlySevenDigits(req[1].pathId))
  => /\ pc[1] = "done"
     /\ resp[1] = ValidationFailedResponse
     /\ audit = before[1].audit
     /\ store = before[1].store

\* C6 (as claimed): every verify request that got past format validation
\* has, when it is answered, written exactly one VERIFY audit entry,
\* whichever branch it took and whatever the record's other fields.
C6_OneAuditEntryPerVerify ==
  (Answered(1, "verify") /\ resp[1] # ValidationFailedResponse)
  => Cardinality(VerifyEntriesSince(1)) = 1

\* C10: no step taken for a check request changes a certificate record or
\* the audit log: neither receiving and validating the request nor the
\* existence query and reply.
C10_CheckChangesNothing ==
  [][(\E p \in Slots :
        /\ req'[p] # NoRequest
        /\ req'[p].op = "check"
        /\ \/ pc[p] = "exists" /\ pc'[p] = "done"
           \/ started' = started + 1 /\ before'[p] # before[p])
     => (store' = store /\ audit' = audit)]_vars

\* a check of a stored, active certificate was answered exists:true after
\* an earlier verification had counted and logged
C10_Witness ==
  /\ Answered(1, "check")
  /\ resp[1].status = 200
  /\ resp[1].exists = TRUE
  /\ audit # <<>>
  /\ store[req[1].pathId].verificationCount > 0

----------------------------------------------------------------------------
(* Properties of the auth routes (SpecAuth)                                *)

\* the answered login attempts that name the account "root", oldest first
RootAttempts ==
  SelectSeq(attempts, LAMBDA e : ToLowerCase(Trim(e.request.username)) = NameRoot)

\* the attempt carried a password that is not the account's
WrongPassword(e) ==
  e.account # Null /\ e.account.passwordHash # [bcrypt |-> e.request.password]

\* attempts i-5 .. i of S are six wrong-password attempts within 10 minutes
SixWrongInTenMinutes(S, i) ==
  /\ i >= 6
  /\ \A k \in (i - 5)..i : WrongPassword(S[k])
  /\ S[i].at - S[i - 5].at <= 10

\* the account-locked response, which carries no token
AnsweredLocked(e) ==
  /\ e.response.status = 429
  /\ e.response.error = "Account Locked"
  /\ "accessToken" \notin DOMAIN e.response
  /\ "refreshToken" \notin DOMAIN e.response

WellFormedLogin(r) == Len(Trim(r.username)) >= 3 /\ Len(r.password) >= 8

\* C11 (as claimed): for one admin account, after 6 wrong-password login
\* attempts made one after another within 10 minutes, the 6th attempt and
\* every login attempt made within the 30 minutes following it return the
\* account-locked response (429), whether or not the password is correct,
\* and none of them issues a token.
C11_LockedThirtyMinutesAfterSixth ==
  LET S == RootAttempts
  IN \A i \in 1..Len(S) :
       SixWrongInTenMinutes(S, i) =>
         \A j \in i..Len(S) :
           (S[j].at - S[i].at <= 30) => AnsweredLocked(S[j])

\* C11 (amended): for one active admin account with no failed login on
\* record, after 6 login attempts with wrong passwords of at least 8
\* characters made one after another within 10 minutes, the 6th attempt and
\* every well-formed login attempt made less than 30 minutes after the 5th
\* of them (the last one whose password was compared) return the
\* account-locked response (429), whether or not the password is correct,
\* and none of them issues a token.
C11_LockedThirtyMinutesAfterFifth ==
  LET S == RootAttempts
  IN \A i \in 1..Len(S) :
       (/\ SixWrongInTenMinutes(S, i)
        /\ \A k \in (i - 5)..i : WellFormedLogin(S[k].request)
        /\ S[i - 5].account.isActive
        /\ S[i - 5].account.loginAttempts.count = 0)
       => \A j \in i..Len(S) :
            (WellFormedLogin(S[j].request) /\ S[j].at - S[i - 1].at < 30)
              => AnsweredLocked(S[j])

\* after six wrong passwords within ten minutes, a seventh attempt with the
\* correct password was answered account-locked
C11_Witness ==
  LET S == RootAttempts
  IN /\ Len(S) >= 7
     /\ SixWrongInTenMinutes(S, 6)
     /\ \A k \in 1..6 : WellFormedLogin(S[k].request)
     /\ S[1].account.loginAttempts.count = 0
     /\ S[7].request.password = PwCorrect
     /\ S[7].at - S[5].at < 30
     /\ AnsweredLocked(S[7])

----------------------------------------------------------------------------
(* Properties of the admin certificate routes                              *)

\* the audit entries written since the request in slot p arrived
EntriesSince(p) == (Len(before[p].audit) + 1)..Len(audit)

\* the CREATE entries with status SUCCESS that name this certificate
CreatedEntries(id) ==
  {i \in 1..Len(audit) : /\ audit[i].action = "CREATE"
                         /\ audit[i].status = "SUCCESS"
                         /\ audit[i].entityId = id}

\* C12: after any interleaving of admin create requests, two concurrent
\* creates with the same certificateId included, there is at most one
\* record per certificateId (a stored record carries the id it is stored
\* under, an id stored from the start is never created again and an id
\* that was not is created at most once), and a create request for an id
\* that is already stored is rejected as a validation failure and leaves
\* the stored record as it was.
C12_AtMostOneRecordPerId ==
  /\ \A id \in StoreIds :
       /\ store[id] # Null => store[id].certificateId = id
       /\ Cardinality(CreatedEntries(id)) <= (IF store0[id] # Null THEN 0 ELSE 1)
       /\ store0[id] # Null => store[id] = store0[id]
  /\ \A p \in Slots :
       (Answered(p, "create") /\ StoredAt(before[p].store, req[p].body.certificateId))
       => /\ resp[p] = ValidationFailedResponse
          /\ store[req[p].body.certificateId] =
               before[p].store[req[p].body.certificateId]

\* two create requests for the stored 2501001 and two for the missing
\* 2502001 can be in flight together; here both of a pair were answered
C12_Witness ==
  /\ started = 2
  /\ \A p \in Slots : Answered(p, "create")
  /\ req[1].body.certificateId = ID_A /\ req[2].body.certificateId = ID_A
  /\ store0[ID_A] # Null
  /\ resp[1] = ValidationFailedResponse /\ resp[2] = ValidationFailedResponse

\* the caller of the request in slot p presented a valid token whose
\* permissions carry this flag
CallerHolds(p, flag) ==
  /\ req[p].bearer.kind = "valid"
  /\ req[p].bearer.user.permissions[flag]

\* C13 (as claimed): a create request by a caller holding
\* canCreateCertificates, with a 7-digit certificateId that is not stored
\* and valid fields, when answered has persisted exactly one new record with
\* that certificateId, createdBy = the caller's username,
\* verificationCount = 0 and isRevoked = false, and has written one CREATE
\* audit entry with status SUCCESS.
C13_CreatePersistsRecord ==
  (/\ Answered(1, "create")
   /\ CallerHolds(1, "canCreateCertificates")
   /\ ExactlySevenDigits(req[1].body.certificateId)
   /\ req[1].body.certificateId \in StoreIds
   /\ ~StoredAt(before[1].store, req[1].body.certificateId)
   /\ CreateChainPasses(req[1].body))
  => /\ store[req[1].body.certificateId] # Null
     /\ store[req[1].body.certificateId].createdBy = req[1].bearer.user.username
     /\ store[req[1].body.certificateId].verificationCount = 0
     /\ ~store[req[1].body.certificateId].isRevoked
     /\ \A id \in StoreIds \ {req[1].body.certificateId} :
          store[id] = before[1].store[id]
     /\ Len(audit) = Len(before[1].audit) + 1
     /\ audit[Len(audit)].action = "CREATE"
     /\ audit[Len(audit)].status = "SUCCESS"

AdminOps == {"create", "update", "delete", "revoke"}

\* the permission flag the specification names for each operation
NamedFlag(op) ==
  CASE op = "create" -> "canCreateCertificates"
    [] op = "update" -> "canEditCertificates"
    [] op = "delete" -> "canDeleteCertificates"
    [] op = "revoke" -> "canRevokeCertificates"

RevokeEntriesSince(p) == {i \in EntriesSince(p) : audit[i].action = "REVOKE"}

\* C15: a revoke request (by a caller holding the revoke flag) on a stored
\* certificate that is already revoked is answered with the already-revoked
\* conflict, writes no audit entry and leaves isRevoked, revokedAt and
\* revocationReason as stored; on a certificate that is not revoked it sets
\* isRevoked with revokedAt = the time of the request and revocationReason =
\* the given reason (the default text when none is given), and writes
\* exactly one audit entry, a REVOKE entry.
C15_RevokeOnceOnly ==
  \A id \in StoreIds :
    (/\ Answered(1, "revoke")
     /\ CallerHolds(1, "canRevokeCertificates")
     /\ req[1].id = id
     /\ StoredAt(before[1].store, id))
    => IF before[1].store[id].isRevoked
       THEN /\ resp[1] = AlreadyRevokedResponse
            /\ audit = before[1].audit
            /\ store[id].isRevoked
            /\ store[id].revokedAt = before[1].store[id].revokedAt
            /\ store[id].revocationReason = before[1].store[id].revocationReason
       ELSE /\ resp[1].status = 200
            /\ store[id].isRevoked
            /\ store[id].revokedAt = now
            /\ store[id].revocationReason =
                 (IF req[1].body.hasReason THEN <<"f", "r", "a", "u", "d">>
                  ELSE TextNoReason)
            /\ Len(audit) = Len(before[1].audit) + 1
            /\ Cardinality(RevokeEntriesSince(1)) = 1
            /\ audit[Len(audit)].status = "SUCCESS"

\* 2501001 was revoked with a reason, and a second revoke request was then
\* answered with the conflict
C15_Witness ==
  /\ Answered(1, "revoke")
  /\ resp[1] = AlreadyRevokedResponse
  /\ ~store0[ID_A].isRevoked
  /\ store[ID_A].isRevoked
  /\ store[ID_A].revocationReason = <<"f", "r", "a", "u", "d">>
  /\ Len(audit) = 1
  /\ audit[1].action = "REVOKE"

\* the request in slot 1 left every field of its target outside this set,
\* and every other record, as they were when it arrived
UpdateChangedOnly(fields) ==
  \A id \in StoreIds :
    IF req[1].id = id /\ StoredAt(before[1].store, id)
    THEN /\ store[id] # Null
         /\ \A f \in DOMAIN before[1].store[id] \ fields :
              store[id][f] = before[1].store[id][f]
    ELSE store[id] = before[1].store[id]

\* C16 (as claimed): an answered admin update request has changed no field
\* of its target other than recipientName, recipientEmail, awardDate, notes
\* and updatedBy, for any request body, and has changed no other record.
C16_UpdateChangesOnlyNamedFields ==
  Answered(1, "update") =>
    UpdateChangedOnly({"recipientName", "recipientEmail", "awardDate", "notes",
                       "updatedBy"})

\* C16 (amended): an answered admin update request has changed no field of
\* its target other than recipientName, recipientEmail, awardDate, notes,
\* updatedBy and the updatedAt timestamp: certificateId, program,
\* programCategory, verificationCount, ipAddresses and the revocation
\* fields are the same after the update as before, for any request body,
\* and no other record is changed.
C16_UpdateChangesOnlyNamedFieldsAndStamp ==
  Answered(1, "update") =>
    /\ UpdateChangedOnly({"recipientName", "recipientEmail", "awardDate", "notes",
                          "updatedBy", "updatedAt"})
    /\ \A id \in StoreIds :
         (req[1].id = id /\ StoredAt(before[1].store, id)) =>
           \A f \in {"certificateId", "program", "programCategory",
                     "verificationCount", "ipAddresses", "isRevoked",
                     "revokedAt", "revocationReason"} :
             store[id][f] = before[1].store[id][f]

\* an update whose body carried the four fields, and certificateId,
\* program, isRevoked and verificationCount besides, was answered 200
C16_Witness ==
  /\ Answered(1, "update")
  /\ resp[1].status = 200
  /\ req[1].body.extra # Null
  /\ req[1].body.fields # {}
  /\ store[ID_A].recipientName = <<"E", "v", "e">>
  /\ store[ID_A].recipientEmail = <<"e", "@", "x", ".", "i", "o">>
  /\ store[ID_A].notes = <<"b">>
  /\ store[ID_A].awardDate = 7
  /\ store[ID_A].updatedBy = "ann"
  /\ store[ID_A].certificateId = ID_A

----------------------------------------------------------------------------
(* Account enumeration through the login route (SpecAuth)                  *)

\* the attempt named a username that has no account
NoAccount(e) == e.account = Null

\* the attempt carried a wrong password for an existing, active account
\* that was not locked when the attempt arrived
WrongPasswordOnOpenAccount(e) ==
  /\ WrongPassword(e)
  /\ e.account.isActive
  /\ ~isLocked(e.account, e.at)

\* C17 (as claimed): for any password, a login attempt for a username that
\* has no account and a wrong-password login attempt for an existing,
\* active, unlocked account produce identical responses, with status 401
\* and the same body.
C17_SameResponse401 ==
  \A i, j \in 1..Len(attempts) :
    (/\ NoAccount(attempts[i])
     /\ WrongPasswordOnOpenAccount(attempts[j])
     /\ attempts[i].request.password = attempts[j].request.password)
    => /\ attempts[i].response = attempts[j].response
       /\ attempts[i].response.status = 401

\* C17 (amended): for any password, a login attempt for a username of at
\* least 3 characters that has no account and a wrong-password login
\* attempt for an existing, active, unlocked account produce identical
\* responses (same status and same body): the 401 response when the
\* password has at least 8 characters, the 400 validation response when it
\* is shorter.
C17_SameResponse ==
  \A i, j \in 1..Len(attempts) :
    (/\ NoAccount(attempts[i])
     /\ Len(Trim(attempts[i].request.username)) >= 3
     /\ WrongPasswordOnOpenAccount(attempts[j])
     /\ attempts[i].request.password = attempts[j].request.password)
    => /\ attempts[i].response = attempts[j].response
       /\ attempts[i].response.status =
            IF Len(attempts[i].request.password) >= 8 THEN 401 ELSE 400

\* a login for an unknown username and a wrong-password login for the open
\* account "root", with the same password, were both answered 401
C17_Witness ==
  \E i, j \in 1..Len(attempts) :
    /\ NoAccount(attempts[i])
    /\ Len(Trim(attempts[i].request.username)) >= 3
    /\ WrongPasswordOnOpenAccount(attempts[j])
    /\ attempts[j].account.username = NameRoot
    /\ attempts[i].request.password = attempts[j].request.password
    /\ Len(attempts[i].request.password) >= 8
    /\ attempts[i].response.status = 401
    /\ attempts[j].response.status = 401
    /\ attempts[i].response.message = "Invalid username or password"

----------------------------------------------------------------------------
(* Changing the password (SpecAuth)                                        *)

\* C18: an authenticated admin who calls POST /api/auth/change-password
\* with their correct current password and a new password that meets the
\* complexity rule and differs from the current one has the stored password
\* replaced by the new one (a login compares against it from then on) and
\* is answered 200; with an incorrect current password the stored password
\* is unchanged and the request is refused.
C18_ChangePasswordReplaces ==
  (/\ Answered(1, "changePassword")
   /\ req[1].bearer.kind = "valid"
   /\ ChangePasswordChainPasses(req[1]))
  => LET name == req[1].bearer.user.username
         account == before[1].admins[name]
     IN IF comparePassword(account, req[1].currentPassword)
        THEN /\ resp[1].status = 200
             /\ comparePassword(admins[name], req[1].newPassword)
             /\ ~comparePassword(admins[name], req[1].currentPassword)
        ELSE /\ resp[1].status # 200
             /\ admins[name].passwordHash = account.passwordHash

----------------------------------------------------------------------------
(* Search (SpecSearch)                                                     *)

\* the stored, unrevoked certificates of the program the request names
SearchablePool(r) ==
  {id \in StoreIds : /\ store[id] # Null
                     /\ ~store[id].isRevoked
                     /\ r.hasProgram => store[id].program = r.program}

\* C19: on GET /api/certificates/search the recipient term filters the
\* results exactly when the caller is authenticated: a caller presenting a
\* valid bearer token gets only certificates whose recipient name matches
\* the term, an unauthenticated caller's recipient term has no effect, and
\* in both cases at most 20 results are returned and none is revoked.
C19_RecipientFilterForAuthenticated ==
  (Answered(1, "search") /\ resp[1].status = 200) =>
    /\ Cardinality(resp[1].results) <= 20
    /\ \A c \in resp[1].results :
         /\ store[c.certificateId] # Null
         /\ ~store[c.certificateId].isRevoked
    /\ (req[1].hasRecipient /\ req[1].bearer.kind = "valid") =>
         \A c \in resp[1].results :
           MatchesIgnoringCase(store[c.certificateId].recipientName,
                               Trim(req[1].recipient))
    /\ (req[1].bearer.kind # "valid" /\ Cardinality(SearchablePool(req[1])) <= 20) =>
         resp[1].results = {SearchResult(store[id]) : id \in SearchablePool(req[1])}

----------------------------------------------------------------------------
(* Audit trail of the admin certificate routes (SpecAdmin)                 *)

\* the audit action of each operation
AuditActionOf(op) ==
  CASE op = "create" -> "CREATE"
    [] op = "update" -> "UPDATE"
    [] op = "delete" -> "DELETE"
    [] op = "revoke" -> "REVOKE"

\* C20: every create, update, delete and revoke request made by a caller
\* holding the required permission results in an audit entry whose status
\* records the outcome returned to the caller: SUCCESS when the operation
\* succeeded and FAILED when it did not (validation failure, target record
\* not found, or database error), the already-revoked conflict excepted.
C20_AuditRecordsOutcome ==
  \A op \in AdminOps :
    (/\ Answered(1, op)
     /\ CallerHolds(1, NamedFlag(op))
     /\ resp[1] # AlreadyRevokedResponse)
    => \E i \in EntriesSince(1) :
         /\ audit[i].action = AuditActionOf(op)
         /\ audit[i].performedByUsername = req[1].bearer.user.username
         /\ audit[i].status =
              IF resp[1].status \in {200, 201} THEN "SUCCESS" ELSE "FAILED"

----------------------------------------------------------------------------
(* Tokens issued by the login route (SpecAuth)                             *)

\* the stored account a successful login in slot 1 was for
LoggedInAccount == admins[LoginName(req[1])]

\* C21 (as claimed): a successful login issues an access token and a
\* refresh token that both carry the admin's identity, role and permissions
\* as claims, with the refresh token expiring later than the access token.
C21_BothTokensCarryRoleAndPermissions ==
  (Answered(1, "login") /\ resp[1].status = 200) =>
    /\ \A tk \in {resp[1].accessToken, resp[1].refreshToken} :
         /\ {"username", "role", "permissions"} \subseteq DOMAIN tk
         /\ tk.username = LoggedInAccount.username
         /\ tk.role = LoggedInAccount.role
         /\ tk.permissions = LoggedInAccount.permissions
    /\ ExpiresInHours(resp[1].refreshToken.expiresIn)
         > ExpiresInHours(resp[1].accessToken.expiresIn)

\* C21 (amended): a successful login issues an access token that carries
\* the admin's identity, role and permissions as claims and a refresh token
\* that carries the admin's identity only, with the refresh token expiring
\* later than the access token.
C21_AccessTokenCarriesRoleAndPermissions ==
  (Answered(1, "login") /\ resp[1].status = 200) =>
    /\ {"username", "role", "permissions"} \subseteq DOMAIN resp[1].accessToken
    /\ resp[1].accessToken.username = LoggedInAccount.username
    /\ resp[1].accessToken.role = LoggedInAccount.role
    /\ resp[1].accessToken.permissions = LoggedInAccount.permissions
    /\ resp[1].refreshToken.username = LoggedInAccount.username
    /\ DOMAIN resp[1].refreshToken = {"username", "expiresIn"}
    /\ ExpiresInHours(resp[1].refreshToken.expiresIn)
         > ExpiresInHours(resp[1].accessToken.expiresIn)

\* root logged in with the correct password after four failures and was
\* issued both tokens
C21_Witness ==
  /\ Answered(1, "login")
  /\ resp[1].status = 200
  /\ req[1].password = PwCorrect
  /\ resp[1].accessToken.username = NameRoot
  /\ resp[1].accessToken.role = "admin"
  /\ resp[1].refreshToken.username = NameRoot
  /\ admins[NameRoot].loginAttempts.count = 0

----------------------------------------------------------------------------
(* The tracked IP list of a certificate                                    *)

\* the IPs of a tracked list
IPsOf(list) == {list[i].ip : i \in 1..Len(list)}

\* at most 10 entries, with pairwise distinct IPs
TrackedListWellFormed(list) ==
  /\ Len(list) <= 10
  /\ \A i, j \in 1..Len(list) : list[i].ip = list[j].ip => i = j

\* every entry of the list that is gone from the next one was the entry
\* whose IP had verified least recently
EvictedLeastRecent(list, next) ==
  \A i \in 1..Len(list) :
    list[i].ip \notin IPsOf(next) =>
      \A j \in 1..Len(list) : list[i].verifiedAt <= list[j].verifiedAt

\* C22: after any sequence of successful verifications of one certificate
\* from any callers, its ipAddresses list holds at most 10 entries with
\* pairwise distinct IPs, and those entries are the most recently verifying
\* distinct IPs: when a new IP arrives and the list is full, the entry
\* removed is the one whose IP verified least recently.
C22_TrackedIPsAreMostRecent ==
  [][\A id \in StoreIds :
       (store[id] # Null /\ store'[id] # Null) =>
         /\ TrackedListWellFormed(store'[id].ipAddresses)
         /\ EvictedLeastRecent(store[id].ipAddresses, store'[id].ipAddresses)]_vars

----------------------------------------------------------------------------
(* Range rules on the public verify route (SpecRange)                      *)

\* the Validator's range rules as the specification states them: the year
\* digits are below 20, or the serial is 000
FailsRangeRule(s) == YearDigitsOf(s) < 20 \/ SerialOf(s) = 0

\* C23: a verify request for a 7-digit ID that fails one of the Validator's
\* range rules (year digits below 20, or serial 000) returns the
\* validator's failure without any record lookup and without writing an
\* audit entry.
C23_RangeFailureRejectedBeforeLookup ==
  (/\ req[1] # NoRequest
   /\ req[1].op = "verify"
   /\ ExactlySevenDigits(req[1].pathId)
   /\ FailsRangeRule(req[1].pathId))
  => /\ pc[1] = "done"
     /\ resp[1].status = 400
     /\ audit = before[1].audit
     /\ store = before[1].store

----------------------------------------------------------------------------
(* Concurrent requests on one certificate (SpecRace)                       *)

\* the request in slot p is an answered revoke of 2501001 that arrived
\* while the certificate was stored and not revoked
RevokeOfActive(p) ==
  /\ Answered(p, "revoke")
  /\ req[p].id = ID_A
  /\ StoredAt(before[p].store, ID_A)
  /\ ~before[p].store[ID_A].isRevoked

\* the REVOKE audit entries written so far
RevokeEntries == {i \in 1..Len(audit) : audit[i].action = "REVOKE"}

\* C24: for two revoke requests on the same non-revoked certificate that
\* run concurrently in any interleaving, exactly one succeeds and exactly
\* one REVOKE audit entry is written; the other receives the
\* already-revoked conflict and does not overwrite revokedAt or
\* revocationReason.
C24_ConcurrentRevokesOneWinner ==
  (RevokeOfActive(1) /\ RevokeOfActive(2)) =>
    \E w \in Slots :
      /\ resp[w].status = 200
      /\ \A p \in Slots \ {w} : resp[p] = AlreadyRevokedResponse
      /\ Cardinality(RevokeEntries) = 1
      /\ store[ID_A].revokedAt = doc[w].revokedAt
      /\ store[ID_A].revocationReason = doc[w].revocationReason

\* C25: revocation is permanent: once a certificate record is stored with
\* isRevoked true, no step of any interleaving of verify, check, search,
\* list, update or revoke requests stores it with isRevoked false again; the
\* record stays revoked until an admin delete removes it.
C25_RevocationPermanent ==
  [][\A id \in StoreIds :
       (store[id] # Null /\ store[id].isRevoked) =>
         IF store'[id] = Null
         THEN \E p \in Slots : /\ req[p] # NoRequest
                               /\ req[p].op = "delete"
                               /\ pc[p] = "deleteFind"
                               /\ pc'[p] = "deleteAudit"
         ELSE store'[id].isRevoked]_vars

\* an update that had loaded the certificate before a revoke saved it was
\* itself saved after the revoke, and the certificate is still revoked
C25_Witness ==
  /\ Answered(1, "revoke")
  /\ resp[1].status = 200
  /\ Answered(2, "update")
  /\ resp[2].status = 200
  /\ ~doc[2].isRevoked
  /\ store[ID_A].isRevoked
  /\ store[ID_A].recipientName = TextEve
  /\ store[ID_A].updatedBy = "ann"

----------------------------------------------------------------------------
(* Logout (SpecAuth)                                                       *)

\* C26: POST /api/auth/logout by a caller presenting a valid bearer token
\* writes exactly one LOGOUT audit entry naming that admin before
\* responding with success.
C26_LogoutWritesAuditEntry ==
  (Answered(1, "logout") /\ req[1].bearer.kind = "valid") =>
    /\ resp[1].status = 200
    /\ Len(audit) = Len(before[1].audit) + 1
    /\ audit[Len(audit)].action = "LOGOUT"
    /\ audit[Len(audit)].performedByUsername = req[1].bearer.user.username

\* a revoke of 2501001 has been answered with success
RevokeCompleted ==
  \E r \in Slots : /\ Answered(r, "revoke")
                   /\ req[r].id = ID_A
                   /\ resp[r].status = 200

\* C27: once a revoke request on a certificate has completed successfully,
\* no verify request that responds afterwards returns verified:true for
\* that certificate and its stored verificationCount never increases
\* again, including for verify requests that had already looked the record
\* up when the revoke ran.
C27_NoVerificationAfterRevoke ==
  [][RevokeCompleted =>
       /\ \A v \in Slots :
            (/\ pc[v] # "done"
             /\ pc'[v] = "done"
             /\ req'[v].op = "verify"
             /\ req'[v].pathId = ID_A)
            => ~resp'[v].verified
       /\ (store[ID_A] # Null /\ store'[ID_A] # Null) =>
            store'[ID_A].verificationCount <= store[ID_A].verificationCount]_vars

----------------------------------------------------------------------------
(* Concurrent wrong-password logins (SpecLoginConcurrent)                  *)

\* the answered login attempts on "root" whose wrong password was compared,
\* oldest first
ComparedWrong ==
  SelectSeq(RootAttempts, LAMBDA e : e.response.status = 401)

\* C28: for one account and any interleaving of concurrent login requests
\* carrying wrong passwords, every such request that performs a password
\* comparison raises the stored failed-login count by exactly 1, so at most
\* 5 wrong-password comparisons are performed before every further request
\* within the lock window is answered account-locked.
C28_EveryComparisonCounted ==
  NoneInFlight =>
    /\ admins[NameRoot].loginAttempts.count = Len(ComparedWrong)
    /\ \A i \in 1..Len(ComparedWrong) :
         i > MaxLoginAttempts =>
           ComparedWrong[i].at - ComparedWrong[i - 1].at >= LockWindow

----------------------------------------------------------------------------
(* The failed-login count (SpecAuth)                                       *)

\* the account "root" as stored after the i-th answered attempt on it
RootAfter(i) ==
  IF i < Len(RootAttempts) THEN RootAttempts[i + 1].account ELSE admins[NameRoot]

\* the i-th attempt on "root" carried a wrong password after a lock had
\* lapsed: 5 or more failures on record, the last one 30 minutes ago or more
WrongAfterLapse(i) ==
  LET e == RootAttempts[i]
  IN /\ WellFormedLogin(e.request)
     /\ WrongPassword(e)
     /\ e.account.isActive
     /\ e.account.loginAttempts.count >= 5
     /\ e.at - e.account.loginAttempts.lastAttemptAt >= 30

----------------------------------------------------------------------------
(* Reported outcome and stored state (SpecAuditFailure)                    *)

\* C30: the outcome reported by a state-changing request matches the
\* stored state: whenever admin create responds with its failure result
\* (500 Creation Failed) no certificate with the requested ID was persisted
\* by that request, and whenever verify responds with its error result
\* (500, verified:false) the certificate's verificationCount was not
\* incremented by that request, even when an audit-log write fails.
C30_ReportedFailureLeftNoTrace ==
  /\ (Answered(1, "create") /\ resp[1] = CreationFailedResponse) =>
       store = before[1].store
  /\ (/\ Answered(1, "verify")
      /\ resp[1] = VerificationErrorResponse
      /\ StoredAt(before[1].store, req[1].pathId)
      /\ StoredAt(store, req[1].pathId))
     => store[req[1].pathId].verificationCount
          = before[1].store[req[1].pathId].verificationCount

====
